---- MODULE Spec2Model ----
(***************************************************************************)
(* Reservation lifecycle of the Te Ta AI backend (src/index_FINAL_FULL.js). *)
(*                                                                         *)
(* The database tables public.reservations and public.owner_action_tokens   *)
(* are the shared state.  Every HTTP handler is a process that advances one *)
(* database round trip (one `await pool.query`) at a time, so that the      *)
(* interleavings of concurrent requests are those the row-level atomicity   *)
(* of the database allows.                                                  *)
(***************************************************************************)
EXTENDS Integers, Sequences, FiniteSets, TLC

\* ---------------------------------------------------------------- bounds
MaxRes == 1          \* reservation ids handed out by the SERIAL key
MaxProcs == 2        \* requests in flight at the same time
MaxTicks == 1        \* how often the clock advances
MaxCeiling == 3      \* largest auto-confirm ceiling drawn for the decision

\* ------------------------------------------------------ program constants
TokenTTL == 120          \* NOW() + INTERVAL '2 hours'
bufferMinutes == 120     \* auto-close buffer
SweepLimit == 500        \* LIMIT 500 of the auto-close selection
MinutesPerDay == 24 * 60     \* minutes of a day of the Europe/Tirane calendar

\* the instants of the model, in minutes since day 0 00:00
StartClock == 22 * 60            \* the first instant: day 0, 22:00
TickMinutes == TokenTTL + 1      \* a tick takes the clock past the expiry of a token

Null == <<>>             \* SQL NULL / JS null for timestamps: <<>> or <<t>>

Restaurants == {1}
ResIds == 1..MaxRes
ReqIds == 0..MaxRes                 \* ids a caller may put in the path
TokenIds == 1..(2 * MaxRes)         \* token strings that are ever issued
ReqTokens == 0..(2 * MaxRes)        \* 0 is the blank token
Procs == 1..MaxProcs                \* the processes of Spec

Terminal == {"Completed", "NoShow", "Cancelled", "Declined"}
Open == {"Pending", "Confirmed"}

VARIABLES
  clock,         \* CURRENT_TIMESTAMP / Date.now(), minutes since day 0 00:00
  ticks,         \* number of clock advances so far
  nextId,        \* next value of the SERIAL primary key of reservations
  reservations,  \* public.reservations: id -> row, or NoRow
  tokens,        \* public.owner_action_tokens: token -> row, or NoRow
  req,           \* the handler invocations in flight: process -> locals
  resp,          \* the HTTP response sent by the last step, or NoResp
  keep,          \* TRUE when a process serves one request and keeps its response
  DB_READY,      \* the flag `let DB_READY` that requireDbReady tests
  dbUp,          \* whether the database answers a query sent now
  dIn,           \* the input drawn at the start: of decideReservationStatus under
                 \* SpecDecide, the body of the request under SpecCreate
  dOut           \* the result of the function: <<>> before the call, <<result>> after

vars == <<clock, ticks, nextId, reservations, tokens, req, resp, keep, DB_READY, dbUp, dIn, dOut>>

\* ------------------------------------------------------------ time helpers
\* A zero-padded "HH:MM" string is the sequence of its five characters;
\* digits are 0..9 and ':' is 10, which keeps the order of the character codes.
Colon == 10

Pad2(n) == <<n \div 10, n % 10>>

HHMI(h, m) == Pad2(h) \o <<Colon>> \o Pad2(m)

RECURSIVE StrLess(_, _)
\* JavaScript's `a < b` on strings: lexicographic on the characters
StrLess(a, b) ==
  IF b = <<>> THEN FALSE
  ELSE IF a = <<>> THEN TRUE
  ELSE IF Head(a) < Head(b) THEN TRUE
  ELSE IF Head(a) > Head(b) THEN FALSE
  ELSE StrLess(Tail(a), Tail(b))

\* minutes past midnight of a well-formed "HH:MM" string (SQL ::time)
ToMinutes(s) == (s[1] * 10 + s[2]) * 60 + s[4] * 10 + s[5]

\* variant: the ranges of the hours and of the minutes are not checked
normalizeTimeHHMIAnyRange(t) == IF t = <<>> THEN Null ELSE HHMI(t[1], t[2])

\* A raw time input is <<>> (the regex does not match) or <<hh, mm>>, the
\* numbers its one-or-two hour digits and two minute digits denote.
normalizeTimeHHMI(t) ==
  IF t = <<>> THEN Null
  ELSE IF t[1] < 0 \/ t[1] > 23 THEN Null
  ELSE IF t[2] < 0 \/ t[2] > 59 THEN Null
  ELSE HHMI(t[1], t[2])

\* to_char((CURRENT_TIMESTAMP AT TIME ZONE ...)::date, 'YYYY-MM-DD'): the day
getTodayAL(now) == now \div MinutesPerDay

\* to_char(...::time, 'HH24:MI'), normalised, with the "00:00" fallback
getNowHHMI_AL(now) ==
  LET s == normalizeTimeHHMI(<<(now % MinutesPerDay) \div 60, (now % MinutesPerDay) % 60>>)
  IN  IF s = Null THEN HHMI(0, 0) ELSE s

\* variant: a result before midnight wraps to the evening
subtractMinutesHHMIWrap(hhmi, minutes) ==
  LET t == IF hhmi = Null THEN HHMI(0, 0) ELSE hhmi
      total == (ToMinutes(t) - minutes + MinutesPerDay) % MinutesPerDay
  IN  HHMI(total \div 60, total % 60)

subtractMinutesHHMI(hhmi, minutes) ==
  LET t == IF hhmi = Null THEN HHMI(0, 0) ELSE hhmi
      safeMins == IF minutes >= 0 THEN minutes ELSE 0
      raw == ToMinutes(t) - safeMins
      lo == IF raw < 0 THEN 0 ELSE raw
      total == IF lo > 23 * 60 + 59 THEN 23 * 60 + 59 ELSE lo
  IN  HHMI(total \div 60, total % 60)

\* ------------------------------------------------------------------ rows
NoRow == [exists |-> FALSE]

\* the columns of a reservation the lifecycle reads or writes
ResRow(rid, date, time, status) ==
  [exists |-> TRUE, restaurant_id |-> rid, date |-> date, time |-> time,
   status |-> status, closed_at |-> Null, closed_reason |-> ""]

TokRow(rid, resId, action, expires) ==
  [exists |-> TRUE, restaurant_id |-> rid, reservation_id |-> resId,
   action |-> action, expires_at |-> expires, used_at |-> Null]

\* crypto.randomBytes(18): the two fresh token strings of reservation id
confirmTokenOf(id) == 2 * id - 1
declineTokenOf(id) == 2 * id

\* variant: WHERE id=$1, without the restaurant_id condition
FoundAnyTenant(id, rid) ==
  /\ id \in DOMAIN reservations
  /\ reservations[id].exists

\* SELECT ... WHERE id=$1 AND restaurant_id=$2
Found(id, rid) ==
  /\ id \in DOMAIN reservations
  /\ reservations[id].exists
  /\ reservations[id].restaurant_id = rid

\* statusBefore = before.rows?.[0]?.status || null
StatusOf(id, rid) == IF Found(id, rid) THEN reservations[id].status ELSE "null"

\* ------------------------------------------------------------ tenant policy
\* A JavaScript number: finite with value v, or NaN
Num(v) == [finite |-> TRUE, v |-> v]
NaN == [finite |-> FALSE, v |-> 0]

\* public.restaurants: max_auto_confirm_people, same_day_cutoff_hhmi
RestaurantsTable ==
  [r \in Restaurants |-> [max_auto_confirm_people |-> Num(2), same_day_cutoff_hhmi |-> <<2, 0>>]]

\* process.env: a variable is unset (or empty), or set to a string, held as
\* what Number() makes of it and as the raw time its text denotes
EnvUnset ==
  [MAX_AUTO_CONFIRM_PEOPLE |-> [set |-> FALSE, num |-> NaN],
   SAME_DAY_CUTOFF_HHMI |-> [set |-> FALSE, raw |-> <<>>]]

\* Number(process.env.MAX_AUTO_CONFIRM_PEOPLE || 6)
DEFAULT_MAX_PEOPLE(env) ==
  IF env.MAX_AUTO_CONFIRM_PEOPLE.set THEN env.MAX_AUTO_CONFIRM_PEOPLE.num ELSE Num(6)

\* String(process.env.SAME_DAY_CUTOFF_HHMI || "11:00").trim()
DEFAULT_CUTOFF(env) ==
  IF env.SAME_DAY_CUTOFF_HHMI.set THEN env.SAME_DAY_CUTOFF_HHMI.raw ELSE <<11, 0>>

\* Number.isFinite(n) && n > 0
FinitePositive(n) == n.finite /\ n.v > 0

\* a || "11:00"
OrEleven(s) == IF s = Null THEN HHMI(11, 0) ELSE s

\* the settled promise of getRestaurantRules, fulfilled with the rules
Fulfilled(maxPeople, cutoffHHMI) ==
  [threw |-> FALSE, maxPeople |-> maxPeople, cutoffHHMI |-> cutoffHHMI]

\* the try block: the SELECT found the row lookup.row, found no row, or threw
RulesTry(env, lookup) ==
  LET maxPeopleRaw == IF lookup.kind = "row" THEN lookup.row.max_auto_confirm_people
                      ELSE DEFAULT_MAX_PEOPLE(env)
      cutoffRaw == IF lookup.kind = "row" THEN lookup.row.same_day_cutoff_hhmi
                   ELSE DEFAULT_CUTOFF(env)
      cutoff == normalizeTimeHHMI(cutoffRaw)
  IN  Fulfilled(IF FinitePositive(maxPeopleRaw) THEN maxPeopleRaw ELSE DEFAULT_MAX_PEOPLE(env),
                IF cutoff # Null THEN cutoff ELSE OrEleven(normalizeTimeHHMI(DEFAULT_CUTOFF(env))))

\* the catch block
RulesCatch(env) ==
  Fulfilled(IF FinitePositive(DEFAULT_MAX_PEOPLE(env)) THEN DEFAULT_MAX_PEOPLE(env) ELSE Num(6),
            OrEleven(normalizeTimeHHMI(DEFAULT_CUTOFF(env))))

\* variant: the lookup is not wrapped in try / catch, the promise is rejected
getRestaurantRulesNoCatch(env, lookup) ==
  IF lookup.kind = "throws" THEN [threw |-> TRUE, maxPeople |-> NaN, cutoffHHMI |-> Null]
  ELSE RulesTry(env, lookup)

\* getRestaurantRules under the environment env when the SELECT ends as lookup
getRestaurantRulesFrom(env, lookup) ==
  IF lookup.kind = "throws" THEN RulesCatch(env) ELSE RulesTry(env, lookup)

\* resolved rules of a tenant whose row is present, with no variable set
getRestaurantRules(rid) ==
  LET r == getRestaurantRulesFrom(EnvUnset, [kind |-> "row", row |-> RestaurantsTable[rid]])
  IN  [maxPeople |-> r.maxPeople, cutoffHHMI |-> r.cutoffHHMI]

\* variant: `a > b` in place of `a >= b`
StrGreater(a, b) == StrLess(b, a)

StrGeq(a, b) == ~StrLess(a, b)

\* variant: the format of the cutoff is not checked
cutoffOkAny(s) == TRUE

\* /^(\d{2}):(\d{2})$/.test(cutoffHHMI)
cutoffOk(s) == Len(s) = 5 /\ s[3] = Colon /\ \A i \in {1, 2, 4, 5} : s[i] \in 0..9

\* variant: the date rule is evaluated before the threshold rule
decideReservationStatusDateFirst(isTodayAL, rules, p, nowHHMI) ==
  IF ~isTodayAL THEN [status |-> "Confirmed", reason |-> "future_auto_confirm"]
  ELSE IF p.finite /\ rules.maxPeople.finite /\ p.v > rules.maxPeople.v
    THEN [status |-> "Pending", reason |-> "group_over_threshold"]
  ELSE IF ~cutoffOk(rules.cutoffHHMI)
    THEN [status |-> "Pending", reason |-> "cutoff_invalid_failsafe"]
  ELSE IF StrGeq(nowHHMI, rules.cutoffHHMI)
    THEN [status |-> "Pending", reason |-> "same_day_after_cutoff"]
  ELSE [status |-> "Confirmed", reason |-> "same_day_before_cutoff"]

\* variant: the cutoff rule is applied whatever the date
decideReservationStatusCutoffAlways(isTodayAL, rules, p, nowHHMI) ==
  LET cutoffHHMI == IF rules.cutoffHHMI = <<>> THEN HHMI(11, 0) ELSE rules.cutoffHHMI IN
  IF p.finite /\ rules.maxPeople.finite /\ p.v > rules.maxPeople.v
    THEN [status |-> "Pending", reason |-> "group_over_threshold"]
  ELSE IF ~cutoffOk(cutoffHHMI)
    THEN [status |-> "Pending", reason |-> "cutoff_invalid_failsafe"]
  ELSE IF StrGeq(nowHHMI, cutoffHHMI)
    THEN [status |-> "Pending", reason |-> "same_day_after_cutoff"]
  ELSE IF isTodayAL
    THEN [status |-> "Confirmed", reason |-> "same_day_before_cutoff"]
  ELSE [status |-> "Confirmed", reason |-> "future_auto_confirm"]

\* the function after its reads of today, the rules and now;
\* cutoffHHMI = String(rules.cutoffHHMI || "11:00")
decideReservationStatus(isTodayAL, rules, p, nowHHMI) ==
  LET cutoffHHMI == IF rules.cutoffHHMI = <<>> THEN HHMI(11, 0) ELSE rules.cutoffHHMI IN
  IF p.finite /\ rules.maxPeople.finite /\ p.v > rules.maxPeople.v
    THEN [status |-> "Pending", reason |-> "group_over_threshold"]
  ELSE IF isTodayAL
    THEN IF ~cutoffOk(cutoffHHMI)
           THEN [status |-> "Pending", reason |-> "cutoff_invalid_failsafe"]
         ELSE IF StrGeq(nowHHMI, cutoffHHMI)
           THEN [status |-> "Pending", reason |-> "same_day_after_cutoff"]
         ELSE [status |-> "Confirmed", reason |-> "same_day_before_cutoff"]
  ELSE [status |-> "Confirmed", reason |-> "future_auto_confirm"]

\* variant: no time has passed
timePassedNever(timeHHMI, nowHHMI) == FALSE

\* return timeHHMI < nowHHMI, on strings
timePassed(timeHHMI, nowHHMI) == StrLess(timeHHMI, nowHHMI)

isTimePassedTodayAL(date, timeHHMI, now) ==
  IF date # getTodayAL(now) THEN FALSE
  ELSE IF timeHHMI = Null THEN FALSE
  ELSE timePassed(timeHHMI, getNowHHMI_AL(now))

rejectIfTimePassedTodayAL(date, rawTime, now) ==
  IF normalizeTimeHHMI(rawTime) = Null THEN "INVALID_TIME"
  ELSE IF isTimePassedTodayAL(date, normalizeTimeHHMI(rawTime), now) THEN "TIME_PASSED"
  ELSE "ok"

\* ------------------------------------------------------------- processes
Idle ==
  [op |-> "none", pc |-> "idle", rid |-> 0, id |-> 0, tok |-> 0, sb |-> "null",
   code |-> 0, msg |-> "", date |-> 0, time |-> Null, people |-> 0,
   status |-> "null", rows |-> <<>>, today |-> 0, cutoff |-> Null,
   scanned |-> 0, completed |-> 0, noshow |-> 0,
   isTodayAL |-> FALSE, reason |-> "", event |-> "none", links |-> <<>>,
   sent |-> <<>>, stats |-> "none", sync |-> "none", data |-> FALSE, body |-> {}]

NoResp == Idle

\* a request is taken by a process that is not serving one (the first such
\* process when processes are reused)
Free(p) ==
  /\ req[p].pc = "idle"
  /\ keep \/ \A q \in DOMAIN req : q < p => req[q].pc # "idle"

\* res.status(code) with the error / message text
Done(r, code, msg) ==
  [Idle EXCEPT !.op = r.op, !.pc = "done", !.id = r.id, !.tok = r.tok, !.sb = r.sb,
               !.status = r.status, !.code = code, !.msg = msg,
               !.scanned = r.scanned, !.completed = r.completed, !.noshow = r.noshow,
               !.event = r.event, !.links = r.links, !.sent = r.sent,
               !.stats = r.stats, !.sync = r.sync, !.data = r.data, !.body = r.body]

\* the process after its handler has returned
After(r) == IF keep THEN r ELSE Idle

\* process p moves to r; a returned handler shows as the response of this step
Move(p, r) ==
  /\ req' = [req EXCEPT ![p] = IF r.pc = "done" THEN After(r) ELSE r]
  /\ resp' = IF r.pc = "done" THEN r ELSE NoResp

Begin(op, rid, id, tok) == [Idle EXCEPT !.op = op, !.rid = rid, !.id = id, !.tok = tok]

\* ------------------------------------------------------------ side effects
\* fireMakeEvent(type, payload): sendMakeEvent is started and not awaited; r.sent
\* holds what became of the attempts of this handler, the last one in flight
\* variant: the handler awaits sendMakeEvent before it answers
fireMakeEventAwaited(r, type) == [r EXCEPT !.event = type, !.sent = <<"ok">>]

fireMakeEvent(r, type) == [r EXCEPT !.event = type, !.sent = <<"inflight">>]

\* what the promise of sendMakeEvent resolves to: { ok: true }, a non-OK
\* answer of the webhook, a failed or timed-out fetch, or skipped (no URL)
Outcomes == {"ok", "non_ok", "failed", "skipped"}

\* variant: an attempt that did not succeed is made again
sendMakeEventRetry(r, outcome) ==
  [r EXCEPT !.sent = IF outcome = "ok" THEN <<outcome>> ELSE <<outcome, "inflight">>]

\* sendMakeEvent(...).catch(() => {}): the result is dropped
sendMakeEvent(r, outcome) == [r EXCEPT !.sent = <<outcome>>]

\* the event of an owner decision, by key or by link
decisionEvent(op) ==
  IF op \in {"confirm", "o_confirm"} THEN "reservation_confirmed" ELSE "reservation_declined"

\* the event of the complete, no-show and cancel routes
closeEvent(action) ==
  IF action = "complete" THEN "reservation_completed"
  ELSE IF action = "no-show" THEN "reservation_no_show"
  ELSE "reservation_cancelled"

\* variant: every created reservation is announced as reservation_created
createEventCreated(status) == "reservation_created"

\* the event of POST /reservations
createEvent(status) ==
  IF status = "Pending" THEN "reservation_created" ELSE "reservation_confirmed"

\* UPDATE public.events SET status=<new> ... after a reservation UPDATE that
\* returned its row (not awaited, errors swallowed): r.sync is the status written
syncEventStatus(r, status) == [r EXCEPT !.sync = status]

\* closeReservationByOwner: the customers upsert with visits_count + 1, only
\* when finalStatus is Completed
closeStats(finalStatus) == IF finalStatus = "Completed" THEN "visit" ELSE "none"

\* ---------------------------------------- POST /owner/reservations/:id/confirm
\* ---------------------------------------- POST /owner/reservations/:id/decline
OwnerOpStatus(op) == IF op = "confirm" THEN "Confirmed" ELSE "Declined"

\* id validation and the `before` SELECT
StartOwnerDecision(p, op, rid, id) ==
  /\ Free(p)
  /\ Move(p, IF id <= 0
               THEN Done(Begin(op, rid, id, 0), 400, "Invalid id")
               ELSE [Begin(op, rid, id, 0) EXCEPT !.pc = "decide_update", !.sb = StatusOf(id, rid)])
  /\ UNCHANGED <<clock, ticks, nextId, reservations, tokens, keep, DB_READY, dbUp, dIn, dOut>>

\* variant: the UPDATE without its status='Pending' condition
DecisionUpdateHitsAnyStatus(id, rid) == Found(id, rid)

\* UPDATE ... SET status=<new> WHERE id AND restaurant_id AND status='Pending'
DecisionUpdateHits(id, rid) == Found(id, rid) /\ reservations[id].status = "Pending"

\* the row after SET status = <new>: closed_at and closed_reason are not in the SET list
DecisionUpdateRow(row, newStatus) == [row EXCEPT !.status = newStatus]

\* variant: the event is fired before the row count of the UPDATE is tested
decisionMissAnnounced(r) ==
  IF r.sb = "null" THEN Done(r, 404, "Reservation not found")
  ELSE Done(fireMakeEvent(r, decisionEvent(r.op)), 409, "Already decided")

\* if (!up.rows.length): 404 when the `before` SELECT found no row, else 409
decisionMiss(r) ==
  IF r.sb = "null" THEN Done(r, 404, "Reservation not found")
  ELSE Done(r, 409, "Already decided")

OwnerDecisionUpdate(p) ==
  LET r == req[p] IN
  /\ r.pc = "decide_update"
  /\ IF DecisionUpdateHits(r.id, r.rid)
       THEN /\ reservations' = [reservations EXCEPT
                 ![r.id] = DecisionUpdateRow(@, OwnerOpStatus(r.op))]
            /\ Move(p, Done(fireMakeEvent(syncEventStatus(r, OwnerOpStatus(r.op)),
                                          decisionEvent(r.op)), 200,
                 IF r.op = "confirm" THEN "Reservation confirmed." ELSE "Reservation declined."))
       ELSE /\ UNCHANGED reservations
            /\ Move(p, decisionMiss(r))
  /\ UNCHANGED <<clock, ticks, nextId, tokens, keep, DB_READY, dbUp, dIn, dOut>>

\* the status that the text of a 409 names: `Already decided: ${statusBefore}`
\* of the owner-key routes names the status read before the UPDATE; "State
\* changed, try again" and the page of the link routes name none
Reported(r) ==
  IF r.op \in {"confirm", "decline"} /\ r.msg = "Already decided" THEN r.sb ELSE "null"

\* ------------------------------------ POST /owner/reservations/:id/complete
\* ------------------------------------ POST /owner/reservations/:id/no-show
\* ------------------------------------ POST /owner/reservations/:id/cancel
mapFinalStatus(action) ==
  IF action = "complete" THEN "Completed"
  ELSE IF action = "no-show" THEN "NoShow"
  ELSE IF action = "cancel" THEN "Cancelled"
  ELSE "null"

\* variant: complete is allowed from Pending as well as from Confirmed
closePreCheckCompleteFromOpen(action, statusBefore) ==
  IF statusBefore \in {"Completed", "NoShow", "Cancelled"} THEN "Already closed"
  ELSE IF ~(statusBefore = "Pending" \/ statusBefore = "Confirmed")
    THEN "Can cancel only Pending/Confirmed reservations"
  ELSE "ok"

\* the pre-checks of closeReservationByOwner on the status it has read:
\* "ok", or the error it returns
closePreCheck(action, statusBefore) ==
  IF statusBefore \in {"Completed", "NoShow", "Cancelled"} THEN "Already closed"
  ELSE IF action = "complete" /\ statusBefore # "Confirmed"
    THEN "Can complete only Confirmed reservations"
  ELSE IF action = "cancel" /\ ~(statusBefore = "Pending" \/ statusBefore = "Confirmed")
    THEN "Can cancel only Pending/Confirmed reservations"
  ELSE IF action = "no-show" /\ ~(statusBefore = "Pending" \/ statusBefore = "Confirmed")
    THEN "Can mark no-show only Pending/Confirmed reservations"
  ELSE "ok"

\* route id validation, then closeReservationByOwner up to its conditional UPDATE
StartClose(p, action, rid, id) ==
  LET b == Begin(action, rid, id, 0)
      sb == StatusOf(id, rid)
  IN
  /\ Free(p)
  /\ Move(p, IF id <= 0 THEN Done(b, 400, "Invalid id")
             ELSE IF ~Found(id, rid) THEN Done(b, 404, "Reservation not found")
             ELSE IF closePreCheck(action, sb) # "ok"
               THEN Done([b EXCEPT !.data = TRUE], 409, closePreCheck(action, sb))
             ELSE [b EXCEPT !.pc = "close_update", !.sb = sb])
  /\ UNCHANGED <<clock, ticks, nextId, reservations, tokens, keep, DB_READY, dbUp, dIn, dOut>>

\* variant: the UPDATE without its status=$5 condition
CloseUpdateHitsAnyStatus(id, rid, statusBefore) == Found(id, rid)

\* UPDATE ... WHERE id AND restaurant_id AND status=$5 (the status read before)
CloseUpdateHits(id, rid, statusBefore) ==
  Found(id, rid) /\ reservations[id].status = statusBefore

\* SET status=$3, closed_at=NOW(), closed_reason=$4
CloseUpdateRow(row, finalStatus, reason) ==
  [row EXCEPT !.status = finalStatus, !.closed_at = <<clock>>, !.closed_reason = reason]

closeReason(action) ==
  IF action = "complete" THEN "owner_complete"
  ELSE IF action = "no-show" THEN "owner_no-show"
  ELSE "owner_cancel"

CloseUpdate(p) ==
  LET r == req[p] IN
  /\ r.pc = "close_update"
  /\ IF CloseUpdateHits(r.id, r.rid, r.sb)
       THEN /\ reservations' = [reservations EXCEPT
                 ![r.id] = CloseUpdateRow(@, mapFinalStatus(r.op), closeReason(r.op))]
            /\ Move(p, Done(fireMakeEvent([syncEventStatus(r, mapFinalStatus(r.op))
                                             EXCEPT !.stats = closeStats(mapFinalStatus(r.op)),
                                                    !.data = TRUE],
                                          closeEvent(r.op)), 200, "closed"))
       ELSE /\ UNCHANGED reservations
            /\ Move(p, Done(r, 409, "State changed, try again"))
  /\ UNCHANGED <<clock, ticks, nextId, tokens, keep, DB_READY, dbUp, dIn, dOut>>

\* ------------------------------------------------- GET /o/confirm/:token
\* ------------------------------------------------- GET /o/decline/:token
\* variant: the expiry is not checked
consumeCheckNoExpiry(tok, action, now) ==
  IF tok = 0 THEN [code |-> 400, error |-> "Missing token"]
  ELSE IF ~(tok \in TokenIds /\ tokens[tok].exists) THEN [code |-> 404, error |-> "Token not found"]
  ELSE IF tokens[tok].action # action THEN [code |-> 409, error |-> "Token action mismatch"]
  ELSE IF tokens[tok].used_at # Null THEN [code |-> 409, error |-> "Token already used"]
  ELSE [code |-> 0, error |-> "ok"]

\* variant: the expiry is checked before the use
consumeCheckExpiryFirst(tok, action, now) ==
  IF tok = 0 THEN [code |-> 400, error |-> "Missing token"]
  ELSE IF ~(tok \in TokenIds /\ tokens[tok].exists) THEN [code |-> 404, error |-> "Token not found"]
  ELSE IF tokens[tok].action # action THEN [code |-> 409, error |-> "Token action mismatch"]
  ELSE IF tokens[tok].expires_at < now THEN [code |-> 410, error |-> "Token expired"]
  ELSE IF tokens[tok].used_at # Null THEN [code |-> 409, error |-> "Token already used"]
  ELSE [code |-> 0, error |-> "ok"]

\* consumeOwnerToken up to its UPDATE: the blank check, the SELECT and the
\* checks on the row read; "ok" when the token may be marked used
consumeCheck(tok, action, now) ==
  IF tok = 0 THEN [code |-> 400, error |-> "Missing token"]
  ELSE IF ~(tok \in TokenIds /\ tokens[tok].exists) THEN [code |-> 404, error |-> "Token not found"]
  ELSE IF tokens[tok].action # action THEN [code |-> 409, error |-> "Token action mismatch"]
  ELSE IF tokens[tok].used_at # Null THEN [code |-> 409, error |-> "Token already used"]
  ELSE IF tokens[tok].expires_at < now THEN [code |-> 410, error |-> "Token expired"]
  ELSE [code |-> 0, error |-> "ok"]

ClickOp(action) == IF action = "confirm" THEN "o_confirm" ELSE "o_decline"

StartClick(p, action, tok) ==
  LET c == consumeCheck(tok, action, clock)
      b == Begin(ClickOp(action), 0, 0, tok)
  IN
  /\ Free(p)
  /\ Move(p, IF c.error # "ok" THEN Done(b, c.code, c.error)
             ELSE [b EXCEPT !.pc = "consume_update",
                            !.rid = tokens[tok].restaurant_id, !.id = tokens[tok].reservation_id])
  /\ UNCHANGED <<clock, ticks, nextId, reservations, tokens, keep, DB_READY, dbUp, dIn, dOut>>

\* variant: the UPDATE without its used_at IS NULL condition
ConsumeUpdateHitsUsed(tok) == tokens[tok].exists

\* UPDATE owner_action_tokens SET used_at=NOW() WHERE token=$1 AND used_at IS NULL
ConsumeUpdateHits(tok) == tokens[tok].exists /\ tokens[tok].used_at = Null

ConsumeUpdate(p) ==
  LET r == req[p] IN
  /\ r.pc = "consume_update"
  /\ IF ConsumeUpdateHits(r.tok)
       THEN /\ tokens' = [tokens EXCEPT ![r.tok].used_at = <<clock>>]
            /\ Move(p, [r EXCEPT !.pc = "click_before"])
       ELSE /\ UNCHANGED tokens
            /\ Move(p, Done(r, 409, "Token already used"))
  /\ UNCHANGED <<clock, ticks, nextId, reservations, keep, DB_READY, dbUp, dIn, dOut>>

\* SELECT id, status, reservation_id ...: what it reads only goes to the log
ClickBefore(p) ==
  LET r == req[p] IN
  /\ r.pc = "click_before"
  /\ Move(p, [r EXCEPT !.pc = "click_update"])
  /\ UNCHANGED <<clock, ticks, nextId, reservations, tokens, keep, DB_READY, dbUp, dIn, dOut>>

ClickOpStatus(op) == IF op = "o_confirm" THEN "Confirmed" ELSE "Declined"

ClickUpdate(p) ==
  LET r == req[p] IN
  /\ r.pc = "click_update"
  /\ IF DecisionUpdateHits(r.id, r.rid)
       THEN /\ reservations' = [reservations EXCEPT
                 ![r.id] = DecisionUpdateRow(@, ClickOpStatus(r.op))]
            /\ Move(p, Done(fireMakeEvent(syncEventStatus(r, ClickOpStatus(r.op)),
                                          decisionEvent(r.op)), 200,
                            IF r.op = "o_confirm" THEN "Confirmed" ELSE "Declined"))
       ELSE /\ UNCHANGED reservations
            /\ Move(p, Done(r, 409, "Already decided"))
  /\ UNCHANGED <<clock, ticks, nextId, tokens, keep, DB_READY, dbUp, dIn, dOut>>

\* ------------------------------------------------------- POST /reservations
CreateInFlight == {q \in DOMAIN req : req[q].pc \in {"create_decide", "create_insert"}}

\* the body checks and the past-time guard; body.missing says that one of the
\* required fields is undefined, null or ""
StartCreate(p, rid, body) ==
  LET b == Begin("create", rid, 0, 0)
      guard == rejectIfTimePassedTodayAL(body.date, body.time, clock)
  IN
  /\ Free(p)
  /\ nextId + Cardinality(CreateInFlight) <= MaxRes
  /\ Move(p, IF body.missing THEN Done(b, 400, "MISSING_FIELD")
             ELSE IF body.people <= 0 THEN Done(b, 400, "INVALID_PEOPLE")
             ELSE IF normalizeTimeHHMI(body.time) = Null THEN Done(b, 400, "INVALID_TIME")
             ELSE IF guard # "ok" THEN Done(b, 400, guard)
             ELSE [b EXCEPT !.pc = "create_decide", !.date = body.date,
                            !.time = normalizeTimeHHMI(body.time), !.people = body.people])
  /\ UNCHANGED <<clock, ticks, nextId, reservations, tokens, keep, DB_READY, dbUp, dIn, dOut>>

\* decideReservationStatus: today, the tenant's rules and now are read here
CreateDecide(p) ==
  LET r == req[p]
      d == decideReservationStatus(r.date = getTodayAL(clock), getRestaurantRules(r.rid),
                                   Num(r.people), getNowHHMI_AL(clock))
  IN
  /\ r.pc = "create_decide"
  /\ Move(p, [r EXCEPT !.pc = "create_insert", !.status = d.status, !.people = 0])
  /\ UNCHANGED <<clock, ticks, nextId, reservations, tokens, keep, DB_READY, dbUp, dIn, dOut>>

\* INSERT INTO public.reservations ... RETURNING id
CreateInsert(p) ==
  LET r == req[p] IN
  /\ r.pc = "create_insert"
  /\ nextId <= MaxRes
  /\ reservations' = [reservations EXCEPT ![nextId] = ResRow(r.rid, r.date, r.time, r.status)]
  /\ nextId' = nextId + 1
  /\ Move(p, [r EXCEPT !.id = nextId, !.date = 0, !.time = Null,
                       !.pc = IF r.status = "Pending" THEN "create_tokens" ELSE "create_sync"])
  /\ UNCHANGED <<clock, ticks, tokens, keep, DB_READY, dbUp, dIn, dOut>>

\* INSERT INTO public.owner_action_tokens: the confirm and the decline token
IssueTokens(table, rid, id, now) ==
  [t \in TokenIds |->
     IF t = confirmTokenOf(id) THEN TokRow(rid, id, "confirm", now + TokenTTL)
     ELSE IF t = declineTokenOf(id) THEN TokRow(rid, id, "decline", now + TokenTTL)
     ELSE table[t]]

CreateTokens(p) ==
  LET r == req[p] IN
  /\ r.pc = "create_tokens"
  /\ tokens' = IssueTokens(tokens, r.rid, r.id, clock)
  /\ Move(p, [r EXCEPT !.pc = "create_sync"])
  /\ UNCHANGED <<clock, ticks, nextId, reservations, keep, DB_READY, dbUp, dIn, dOut>>

\* RETURNING id, reservation_id, created_at, status: the fields of `inserted`
insertedFields == {"id", "reservation_id", "created_at", "status"}

\* the event is fired with the links in its payload, customers and events are
\* synced (best effort), 202 / 201 with data: { ...inserted, created_at_local }
CreateFinish(p) ==
  LET r == req[p] IN
  /\ r.pc = "create_sync"
  /\ Move(p, Done(fireMakeEvent([r EXCEPT !.stats = "sync", !.data = TRUE,
                                           !.body = insertedFields \cup {"created_at_local"},
                                           !.links = IF r.status = "Pending"
                                                       THEN <<confirmTokenOf(r.id), declineTokenOf(r.id)>>
                                                       ELSE <<>>],
                                createEvent(r.status)),
                  IF r.status = "Pending" THEN 202 ELSE 201,
                  IF r.status = "Pending" THEN "Reservation pending owner approval."
                  ELSE "Reservation confirmed."))
  /\ UNCHANGED <<clock, ticks, nextId, reservations, tokens, keep, DB_READY, dbUp, dIn, dOut>>

\* the token INSERT throws (connection lost): the catch block answers 500
CreateTokensFail(p) ==
  LET r == req[p] IN
  /\ r.pc = "create_tokens"
  /\ Move(p, Done(r, 500, "error"))
  /\ UNCHANGED <<clock, ticks, nextId, reservations, tokens, keep, DB_READY, dbUp, dIn, dOut>>

\* ------------------------------------------------------ POST /cron/auto-close
\* variant: every selected reservation becomes NoShow
autoCloseFinalNoShow(status) == "NoShow"

autoCloseFinal(status) == IF status = "Confirmed" THEN "Completed" ELSE "NoShow"

\* variant: the selection without status IN ('Confirmed','Pending')
SweepSelectsAnyStatus(row, today, cutoffHHMI) ==
  /\ row.exists
  /\ \/ row.date < today
     \/ row.date = today /\ ToMinutes(row.time) <= ToMinutes(cutoffHHMI)

\* the WHERE clause of the selection
SweepSelects(row, today, cutoffHHMI) ==
  /\ row.exists
  /\ row.status \in {"Confirmed", "Pending"}
  /\ \/ row.date < today
     \/ row.date = today /\ ToMinutes(row.time) <= ToMinutes(cutoffHHMI)

RECURSIVE SweepTies(_)
\* rows with equal date and time come in any order
SweepTies(S) ==
  IF S = {} THEN {<<>>}
  ELSE UNION {{<<m>> \o s : s \in SweepTies(S \ {m})} : m \in S}

\* ORDER BY date ASC, time ASC: the rows come by ascending key; the order of
\* the zero-padded HH:MM texts is the order of their minutes.
\* SweepOrdersIn[<<S, lo, hi>>]: the ids of S, whose keys lie in lo..hi, in
\* every order the ORDER BY allows: the rows of the lower half of the keys,
\* followed by the others
SweepOrdersIn[a \in (SUBSET DOMAIN reservations) \X Nat \X Nat] ==
  LET S == a[1]
      lo == a[2]
      hi == a[3]
      mid == (lo + hi) \div 2
      key(x) == reservations[x].date * MinutesPerDay + ToMinutes(reservations[x].time)
      lower == {x \in S : key(x) <= mid}
  IN  IF S = {} THEN {<<>>}
      ELSE IF lo = hi THEN SweepTies(S)
      ELSE {b \o c : b \in SweepOrdersIn[<<lower, lo, mid>>],
                     c \in SweepOrdersIn[<<S \ lower, mid + 1, hi>>]}

SweepOrders(S) ==
  LET dates == {reservations[i].date : i \in S}
      last == CHOOSE d \in dates : \A e \in dates : e <= d
  IN  IF S = {} THEN {<<>>} ELSE SweepOrdersIn[<<S, 0, (last + 1) * MinutesPerDay - 1>>]

\* the result sets the SELECT may return: every order the ORDER BY allows,
\* cut at the LIMIT
SweepRows(today, cutoffHHMI) ==
  LET S == {i \in DOMAIN reservations : SweepSelects(reservations[i], today, cutoffHHMI)}
      m == IF Cardinality(S) > SweepLimit THEN SweepLimit ELSE Cardinality(S)
  IN  {[k \in 1..m |-> [id |-> s[k], restaurant_id |-> reservations[s[k]].restaurant_id,
                        status |-> reservations[s[k]].status]] : s \in SweepOrders(S)}

StartSweep(p) ==
  /\ Free(p)
  /\ Move(p, [Begin("sweep", 0, 0, 0) EXCEPT !.pc = "sweep_now", !.today = getTodayAL(clock)])
  /\ UNCHANGED <<clock, ticks, nextId, reservations, tokens, keep, DB_READY, dbUp, dIn, dOut>>

SweepNow(p) ==
  LET r == req[p] IN
  /\ r.pc = "sweep_now"
  /\ Move(p, [r EXCEPT !.pc = "sweep_select",
                       !.cutoff = subtractMinutesHHMI(getNowHHMI_AL(clock), bufferMinutes)])
  /\ UNCHANGED <<clock, ticks, nextId, reservations, tokens, keep, DB_READY, dbUp, dIn, dOut>>

SweepSelect(p) ==
  LET r == req[p] IN
  /\ r.pc = "sweep_select"
  /\ \E rows \in SweepRows(r.today, r.cutoff) :
       Move(p, IF rows = <<>> THEN Done(r, 200, "Auto-close done")
               ELSE [r EXCEPT !.pc = "sweep_update", !.rows = rows, !.scanned = Len(rows),
                              !.today = 0, !.cutoff = Null])
  /\ UNCHANGED <<clock, ticks, nextId, reservations, tokens, keep, DB_READY, dbUp, dIn, dOut>>

\* variant: the UPDATE without its status=$4 condition
SweepUpdateHitsAnyStatus(h) == Found(h.id, h.restaurant_id)

\* UPDATE ... WHERE id=$1 AND restaurant_id=$2 AND status=$4 (the status selected)
SweepUpdateHits(h) == Found(h.id, h.restaurant_id) /\ reservations[h.id].status = h.status

\* SET status=$3, closed_at=NOW(), closed_reason='auto_close_cron'
SweepUpdateRow(row, finalStatus) ==
  [row EXCEPT !.status = finalStatus, !.closed_at = <<clock>>, !.closed_reason = "auto_close_cron"]

\* one iteration of the loop; after the last row the summary is returned
SweepUpdate(p) ==
  LET r == req[p]
      h == Head(r.rows)
      finalStatus == autoCloseFinal(h.status)
      hit == SweepUpdateHits(h)
      r2 == [r EXCEPT !.rows = Tail(r.rows),
                      !.completed = IF hit /\ finalStatus = "Completed" THEN @ + 1 ELSE @,
                      !.noshow = IF hit /\ finalStatus # "Completed" THEN @ + 1 ELSE @]
  IN
  /\ r.pc = "sweep_update"
  /\ IF hit
       THEN /\ reservations' = [reservations EXCEPT ![h.id] = SweepUpdateRow(@, finalStatus)]
       ELSE UNCHANGED reservations
  /\ Move(p, IF Tail(r.rows) = <<>> THEN Done(r2, 200, "Auto-close done") ELSE r2)
  /\ UNCHANGED <<clock, ticks, nextId, tokens, keep, DB_READY, dbUp, dIn, dOut>>

\* ------------------------------------------------------------------ clock
Tick ==
  /\ ticks < MaxTicks
  /\ clock' = clock + TickMinutes
  /\ ticks' = ticks + 1
  /\ resp' = NoResp
  /\ UNCHANGED <<nextId, reservations, tokens, req, keep, DB_READY, dbUp, dIn, dOut>>

\* ------------------------------------------------- the decision on its own
\* values of now and of the cutoff on both sides of the hour and digit boundaries
DecideTimes == {HHMI(h, m) : h \in {0, 9, 10, 11, 23}, m \in {0, 59}}

\* cutoffs that are not two digits, a colon and two digits: "", "9:30", "1100"
MalformedCutoffs == {<<>>, <<9, Colon, 3, 0>>, <<1, 1, 0, 0>>}

DecideCutoffs == DecideTimes \cup MalformedCutoffs
DecideCeilings == {NaN} \cup {Num(n) : n \in 1..MaxCeiling}

DecisionInputs ==
  [ready : {TRUE}, today : 0..1, date : 0..2, maxPeople : DecideCeilings,
   cutoffHHMI : DecideCutoffs, people : 1..(MaxCeiling + 1), now : DecideTimes]

DefaultDecisionInput ==
  [ready |-> FALSE, today |-> 0, date |-> 0, maxPeople |-> NaN,
   cutoffHHMI |-> HHMI(11, 0), people |-> 1, now |-> HHMI(0, 0)]

\* one call of decideReservationStatus(restaurantId, dateStr, people)
Decide ==
  /\ dIn.ready
  /\ dOut = Null
  /\ dOut' = <<decideReservationStatus(dIn.date = dIn.today,
                  [maxPeople |-> dIn.maxPeople, cutoffHHMI |-> dIn.cutoffHHMI],
                  Num(dIn.people), dIn.now)>>
  /\ UNCHANGED <<clock, ticks, nextId, reservations, tokens, req, resp, keep, DB_READY, dbUp, dIn>>

\* ------------------------------------------------------------------ specs
CreateDates == 0..1
CreateTimes == {<<0, 0>>, <<23, 0>>}
CreatePeople == {2, 3}
CreateBodies ==
  [missing : {FALSE}, date : CreateDates, time : CreateTimes, people : CreatePeople]
  \cup {[missing |-> TRUE, date |-> 0, time |-> <<23, 0>>, people |-> 2],
        [missing |-> FALSE, date |-> 0, time |-> <<23, 0>>, people |-> 0],
        [missing |-> FALSE, date |-> 0, time |-> <<>>, people |-> 2],
        [missing |-> FALSE, date |-> 0, time |-> <<24, 0>>, people |-> 2]}

InitDb ==
  /\ clock = StartClock
  /\ ticks = 0
  /\ nextId = 1
  /\ reservations = [i \in ResIds |-> NoRow]
  /\ tokens = [t \in TokenIds |-> NoRow]
  /\ req = [p \in Procs |-> Idle]
  /\ resp = NoResp

Init ==
  /\ InitDb
  /\ keep = FALSE
  /\ DB_READY = TRUE
  /\ dbUp = TRUE
  /\ dIn = DefaultDecisionInput
  /\ dOut = Null

Next ==
  \/ Tick
  \/ \E p \in Procs, op \in {"confirm", "decline"}, rid \in Restaurants, id \in ReqIds :
       StartOwnerDecision(p, op, rid, id)
  \/ \E p \in Procs : OwnerDecisionUpdate(p)
  \/ \E p \in Procs, action \in {"complete", "no-show", "cancel"}, rid \in Restaurants, id \in ReqIds :
       StartClose(p, action, rid, id)
  \/ \E p \in Procs : CloseUpdate(p)
  \/ \E p \in Procs, action \in {"confirm", "decline"}, tok \in ReqTokens :
       StartClick(p, action, tok)
  \/ \E p \in Procs : ConsumeUpdate(p)
  \/ \E p \in Procs : ClickBefore(p)
  \/ \E p \in Procs : ClickUpdate(p)
  \/ \E p \in Procs, rid \in Restaurants, body \in CreateBodies : StartCreate(p, rid, body)
  \/ \E p \in Procs : CreateDecide(p)
  \/ \E p \in Procs : CreateInsert(p)
  \/ \E p \in Procs : CreateTokens(p)
  \/ \E p \in Procs : CreateFinish(p)
  \/ \E p \in Procs : StartSweep(p)
  \/ \E p \in Procs : SweepNow(p)
  \/ \E p \in Procs : SweepSelect(p)
  \/ \E p \in Procs : SweepUpdate(p)

Spec == Init /\ [][Next]_vars

\* the same system when the token INSERT of a create request may throw
NextFaulty == Next \/ \E p \in Procs : CreateTokensFail(p)

SpecFaulty == Init /\ [][NextFaulty]_vars

InitDecide ==
  /\ InitDb
  /\ keep = FALSE
  /\ DB_READY = TRUE
  /\ dbUp = TRUE
  /\ dIn \in DecisionInputs
  /\ dOut = Null

SpecDecide == InitDecide /\ [][Decide]_vars

\* --------------------------------------------------------------- the races
\* One reservation has been created at StartClock by POST /reservations; later
\* an owner-dashboard action, a click on an owner link and the auto-close cron
\* arrive, each once, and every process keeps the response it sent.
RaceProcs == 1..(MaxProcs + 1)
Cron == MaxProcs + 1                \* the process that runs the sweep
RaceClocks == {StartClock, StartClock + TokenTTL, StartClock + TickMinutes}

\* the bodies POST /reservations accepts at the instant `now`
AcceptedBodies(now) ==
  {b \in CreateBodies : /\ ~b.missing
                        /\ b.people > 0
                        /\ rejectIfTimePassedTodayAL(b.date, b.time, now) = "ok"}

\* the tables after one accepted POST /reservations at the instant `now`
CreatedRow(rid, body, now) ==
  ResRow(rid, body.date, normalizeTimeHHMI(body.time),
         decideReservationStatus(body.date = getTodayAL(now), getRestaurantRules(rid),
                                 Num(body.people), getNowHHMI_AL(now)).status)

InitRace ==
  /\ keep = TRUE
  /\ DB_READY = TRUE
  /\ dbUp = TRUE
  /\ ticks = 0
  /\ nextId = 2
  /\ clock \in RaceClocks
  /\ \E rid \in Restaurants, body \in AcceptedBodies(StartClock) :
       /\ reservations = [i \in ResIds |-> IF i = 1 THEN CreatedRow(rid, body, StartClock) ELSE NoRow]
       /\ tokens = IF CreatedRow(rid, body, StartClock).status = "Pending"
                     THEN IssueTokens([t \in TokenIds |-> NoRow], rid, 1, StartClock)
                     ELSE [t \in TokenIds |-> NoRow]
  /\ req = [p \in RaceProcs |-> Idle]
  /\ resp = NoResp
  /\ dIn = DefaultDecisionInput
  /\ dOut = Null

NextRace ==
  \/ \E p \in Procs, op \in {"confirm", "decline"}, rid \in Restaurants :
       StartOwnerDecision(p, op, rid, 1)
  \/ \E p \in Procs : OwnerDecisionUpdate(p)
  \/ \E p \in Procs, action \in {"complete", "no-show", "cancel"}, rid \in Restaurants :
       StartClose(p, action, rid, 1)
  \/ \E p \in Procs : CloseUpdate(p)
  \/ \E p \in Procs, action \in {"confirm", "decline"}, tok \in {confirmTokenOf(1), declineTokenOf(1)} :
       StartClick(p, action, tok)
  \/ \E p \in Procs : ConsumeUpdate(p)
  \/ \E p \in Procs : ClickBefore(p)
  \/ \E p \in Procs : ClickUpdate(p)
  \/ StartSweep(Cron)
  \/ SweepNow(Cron)
  \/ SweepSelect(Cron)
  \/ SweepUpdate(Cron)

SpecRace == InitRace /\ [][NextRace]_vars

\* ------------------------------------------- one POST /reservations, read by read
\* The handler of one request with every query that reads the database clock
\* as a step of its own: the guard reads today and then now, the decision
\* reads today, the rules and then now, and the clock moves between them.
MaxMinutes == 2

\* variant: a date before today counts as today
isReservationTodayOrPast(date, now) == date <= getTodayAL(now)

\* isReservationTodayAL: reqYMD === todayYMD, with today read at the instant now
isReservationTodayAL(date, now) == date = getTodayAL(now)

\* the body checks: the required fields, people, the format of the time
CreateCheckBody(p, rid, body) ==
  LET b == Begin("create", rid, 0, 0) IN
  /\ Free(p)
  /\ Move(p, IF body.missing THEN Done(b, 400, "MISSING_FIELD")
             ELSE IF body.people <= 0 THEN Done(b, 400, "INVALID_PEOPLE")
             ELSE IF normalizeTimeHHMI(body.time) = Null THEN Done(b, 400, "INVALID_TIME")
             ELSE [b EXCEPT !.pc = "guard_today", !.date = body.date,
                            !.time = normalizeTimeHHMI(body.time), !.people = body.people])
  /\ UNCHANGED <<clock, ticks, nextId, reservations, tokens, keep, DB_READY, dbUp, dIn, dOut>>

\* isTimePassedTodayAL: today = await getTodayAL(); a date that is not today passes
GuardToday(p) ==
  LET r == req[p] IN
  /\ r.pc = "guard_today"
  /\ Move(p, [r EXCEPT !.pc = IF r.date # getTodayAL(clock) THEN "decide_today"
                              ELSE "guard_now"])
  /\ UNCHANGED <<clock, ticks, nextId, reservations, tokens, keep, DB_READY, dbUp, dIn, dOut>>

\* isTimePassedTodayAL: nowHHMI = await getNowHHMI_AL(); TIME_PASSED when time < now
GuardNow(p) ==
  LET r == req[p] IN
  /\ r.pc = "guard_now"
  /\ Move(p, IF timePassed(r.time, getNowHHMI_AL(clock)) THEN Done(r, 400, "TIME_PASSED")
             ELSE [r EXCEPT !.pc = "decide_today"])
  /\ UNCHANGED <<clock, ticks, nextId, reservations, tokens, keep, DB_READY, dbUp, dIn, dOut>>

\* decideReservationStatus: isTodayAL = await isReservationTodayAL(dateStr), the
\* rules are read, and the function returns without reading now when the party
\* is above the ceiling or the date is not today
DecideToday(p) ==
  LET r == req[p]
      isTodayAL == isReservationTodayAL(r.date, clock)
      rules == getRestaurantRules(r.rid)
      over == rules.maxPeople.finite /\ r.people > rules.maxPeople.v
      d == decideReservationStatus(isTodayAL, rules, Num(r.people), HHMI(0, 0))
  IN
  /\ r.pc = "decide_today"
  /\ Move(p, IF over \/ ~isTodayAL
               THEN [r EXCEPT !.pc = "create_insert", !.isTodayAL = isTodayAL,
                              !.status = d.status, !.reason = d.reason]
               ELSE [r EXCEPT !.pc = "decide_now", !.isTodayAL = isTodayAL])
  /\ UNCHANGED <<clock, ticks, nextId, reservations, tokens, keep, DB_READY, dbUp, dIn, dOut>>

\* decideReservationStatus: nowHHMI = await getNowHHMI_AL() and the cutoff rule
DecideNow(p) ==
  LET r == req[p]
      d == decideReservationStatus(r.isTodayAL, getRestaurantRules(r.rid),
                                   Num(r.people), getNowHHMI_AL(clock))
  IN
  /\ r.pc = "decide_now"
  /\ Move(p, [r EXCEPT !.pc = "create_insert", !.status = d.status, !.reason = d.reason])
  /\ UNCHANGED <<clock, ticks, nextId, reservations, tokens, keep, DB_READY, dbUp, dIn, dOut>>

\* a minute passes while the request is served
Minute ==
  /\ ticks < MaxMinutes
  /\ \E p \in DOMAIN req : req[p].pc \notin {"idle", "done"}
  /\ clock' = clock + 1
  /\ ticks' = ticks + 1
  /\ resp' = NoResp
  /\ UNCHANGED <<nextId, reservations, tokens, req, keep, DB_READY, dbUp, dIn, dOut>>

\* the request arrives two minutes or one minute before midnight, one minute
\* before the cutoff 02:00 of the tenant, or in the morning
ReadClocks ==
  {MinutesPerDay - 2, MinutesPerDay - 1, MinutesPerDay + 2 * 60 - 1, MinutesPerDay + 10 * 60}

\* r.time: absent or not matching the pattern (<<>>), or hours and minutes
ReadTimes == {<<>>, <<24, 0>>, <<9, 60>>, <<0, 0>>, <<1, 59>>, <<2, 0>>, <<9, 5>>, <<23, 59>>}

ReadBodies == [missing : BOOLEAN, date : 0..2, time : ReadTimes, people : {0, 2, 3}]

InitCreate ==
  /\ keep = TRUE
  /\ DB_READY = TRUE
  /\ dbUp = TRUE
  /\ clock \in ReadClocks
  /\ ticks = 0
  /\ nextId = 1
  /\ reservations = [i \in ResIds |-> NoRow]
  /\ tokens = [t \in TokenIds |-> NoRow]
  /\ req = [p \in {1} |-> Idle]
  /\ resp = NoResp
  /\ dIn \in ReadBodies
  /\ dOut = Null

NextCreate ==
  \/ Minute
  \/ \E rid \in Restaurants : CreateCheckBody(1, rid, dIn)
  \/ GuardToday(1)
  \/ GuardNow(1)
  \/ DecideToday(1)
  \/ DecideNow(1)
  \/ CreateInsert(1)
  \/ CreateTokens(1)
  \/ CreateFinish(1)

SpecCreate == InitCreate /\ [][NextCreate]_vars

\* ------------------------------------------------ the sweep with nobody else
\* POST /cron/auto-close is called twice, the second call after the first has
\* returned, on a table that nothing else touches and at one instant of the
\* clock. The table holds MaxSweepRows reservations of any date, time and
\* status, or a backlog of overdue open reservations of the size of the batch
\* limit or one more. dIn keeps the table as it was before the first call.
MaxSweepRows == 2

\* the sweep runs on day 1 at 00:30, 11:59 or 12:00
SweepClocks == {MinutesPerDay + 30, MinutesPerDay + 12 * 60 - 1, MinutesPerDay + 12 * 60}

\* a stored reservation: open, closed by the owner, or declined
SweepRowChoices ==
  {[ResRow(rid, date, time, status) EXCEPT
      !.closed_at = IF status = "Completed" THEN <<StartClock>> ELSE Null,
      !.closed_reason = IF status = "Completed" THEN "owner_complete" ELSE ""] :
     rid \in Restaurants, date \in 0..2, time \in {HHMI(0, 0), HHMI(10, 0)},
     status \in {"Pending", "Confirmed", "Completed", "Declined"}}

\* n reservations of day 0, one per minute, Confirmed and Pending in turn
BacklogTable(n) ==
  [i \in 1..n |-> ResRow(1, 0, HHMI(i \div 60, i % 60),
                         IF i % 2 = 0 THEN "Pending" ELSE "Confirmed")]

BacklogSizes == {SweepLimit, SweepLimit + 1}

InitSweep ==
  /\ keep = TRUE
  /\ DB_READY = TRUE
  /\ dbUp = TRUE
  /\ ticks = 0
  /\ \/ /\ clock \in SweepClocks
        /\ reservations \in [1..MaxSweepRows -> SweepRowChoices]
     \/ /\ clock = MinutesPerDay + 12 * 60
        /\ \E n \in BacklogSizes : reservations = BacklogTable(n)
  /\ nextId = Cardinality(DOMAIN reservations) + 1
  /\ tokens = [t \in TokenIds |-> NoRow]
  /\ req = [p \in 1..2 |-> Idle]
  /\ resp = NoResp
  /\ dIn = reservations
  /\ dOut = Null

NextSweep ==
  \/ StartSweep(1)
  \/ req[1].pc = "done" /\ StartSweep(2)
  \/ \E p \in 1..2 : SweepNow(p)
  \/ \E p \in 1..2 : SweepSelect(p)
  \/ \E p \in 1..2 : SweepUpdate(p)

SpecSweep == InitSweep /\ [][NextSweep]_vars

\* --------------------------------------------- the sweep against the owner
\* Two overdue open reservations of day 0; on day 1 at 12:00 process 2 runs
\* POST /cron/auto-close while process 1 serves one owner-dashboard request on
\* either reservation. dIn keeps the table as it was at the start.
InitSweepRace ==
  /\ keep = TRUE
  /\ DB_READY = TRUE
  /\ dbUp = TRUE
  /\ ticks = 0
  /\ clock = MinutesPerDay + 12 * 60
  /\ \E rid \in Restaurants, s1, s2 \in Open :
       reservations = <<ResRow(rid, 0, HHMI(0, 0), s1), ResRow(rid, 0, HHMI(10, 0), s2)>>
  /\ nextId = 3
  /\ tokens = [t \in TokenIds |-> NoRow]
  /\ req = [p \in 1..2 |-> Idle]
  /\ resp = NoResp
  /\ dIn = reservations
  /\ dOut = Null

NextSweepRace ==
  \/ \E op \in {"confirm", "decline"}, rid \in Restaurants, id \in 1..2 :
       StartOwnerDecision(1, op, rid, id)
  \/ OwnerDecisionUpdate(1)
  \/ \E action \in {"complete", "no-show", "cancel"}, rid \in Restaurants, id \in 1..2 :
       StartClose(1, action, rid, id)
  \/ CloseUpdate(1)
  \/ StartSweep(2)
  \/ SweepNow(2)
  \/ SweepSelect(2)
  \/ SweepUpdate(2)

SpecSweepRace == InitSweepRace /\ [][NextSweepRace]_vars

\* ------------------------------------------------- the cutoff of the sweep
\* cutoffHHMI = subtractMinutesHHMI(nowHHMI, bufferMinutes) at every minute of
\* the day
SweepCutoff ==
  /\ dOut = Null
  /\ dOut' = <<subtractMinutesHHMI(getNowHHMI_AL(clock), bufferMinutes)>>
  /\ UNCHANGED <<clock, ticks, nextId, reservations, tokens, req, resp, keep, DB_READY, dbUp, dIn>>

InitCutoff ==
  /\ clock \in 0..(MinutesPerDay - 1)
  /\ ticks = 0
  /\ nextId = 1
  /\ reservations = [i \in ResIds |-> NoRow]
  /\ tokens = [t \in TokenIds |-> NoRow]
  /\ req = [p \in Procs |-> Idle]
  /\ resp = NoResp
  /\ keep = FALSE
  /\ DB_READY = TRUE
  /\ dbUp = TRUE
  /\ dIn = DefaultDecisionInput
  /\ dOut = Null

SpecCutoff == InitCutoff /\ [][SweepCutoff]_vars

\* ------------------------------------------- getRestaurantRules, input by input
\* What MAX_AUTO_CONFIRM_PEOPLE may hold: unset, "8", "abc", "0"
EnvMaxPeople ==
  {[set |-> FALSE, num |-> NaN], [set |-> TRUE, num |-> Num(8)],
   [set |-> TRUE, num |-> NaN], [set |-> TRUE, num |-> Num(0)]}

\* What SAME_DAY_CUTOFF_HHMI may hold: unset, "09:30", "noon", "25:00"
EnvCutoffs ==
  {[set |-> FALSE, raw |-> <<>>], [set |-> TRUE, raw |-> <<9, 30>>],
   [set |-> TRUE, raw |-> <<>>], [set |-> TRUE, raw |-> <<25, 0>>]}

Envs ==
  {[MAX_AUTO_CONFIRM_PEOPLE |-> m, SAME_DAY_CUTOFF_HHMI |-> c] : m \in EnvMaxPeople, c \in EnvCutoffs}

\* rows of public.restaurants: ceilings within and (0: a table older than its
\* CHECK constraint) outside 1..50, cutoffs that are times and \d{2}:\d{2} texts
\* that are not
RuleRows ==
  {[max_auto_confirm_people |-> Num(m), same_day_cutoff_hhmi |-> c] :
     m \in {0, 2, MaxCeiling}, c \in {<<20, 0>>, <<24, 0>>, <<9, 60>>}}

Lookups ==
  {[kind |-> "throws", row |-> NoRow], [kind |-> "absent", row |-> NoRow]}
    \cup {[kind |-> "row", row |-> r] : r \in RuleRows}

ResolveRules ==
  /\ dOut = Null
  /\ dOut' = getRestaurantRulesFrom(dIn.env, dIn.lookup)
  /\ UNCHANGED <<clock, ticks, nextId, reservations, tokens, req, resp, keep, DB_READY, dbUp, dIn>>

InitRules ==
  /\ clock = StartClock
  /\ ticks = 0
  /\ nextId = 1
  /\ reservations = [i \in ResIds |-> NoRow]
  /\ tokens = [t \in TokenIds |-> NoRow]
  /\ req = [p \in Procs |-> Idle]
  /\ resp = NoResp
  /\ keep = FALSE
  /\ DB_READY = TRUE
  /\ dbUp = TRUE
  /\ dIn \in {[env |-> e, lookup |-> l] : e \in Envs, l \in Lookups}
  /\ dOut = Null

SpecRules == InitRules /\ [][ResolveRules]_vars

\* ------------------------------------------------- the races with the webhook
\* The races of SpecRace, and the promise of each started sendMakeEvent
\* resolving at any later moment with any outcome.
MakeAnswers(p, outcome) ==
  /\ req[p].pc = "done"
  /\ req[p].sent # <<>>
  /\ req[p].sent[Len(req[p].sent)] = "inflight"
  /\ req' = [req EXCEPT ![p] = sendMakeEvent(@, outcome)]
  /\ resp' = NoResp
  /\ UNCHANGED <<clock, ticks, nextId, reservations, tokens, keep, DB_READY, dbUp, dIn, dOut>>

\* the customers upsert that closeReservationByOwner started and did not await
\* succeeds or fails; .catch(() => {}) drops the failure
StatsAnswers(p, ok) ==
  /\ req[p].pc = "done"
  /\ req[p].stats = "visit"
  /\ req' = [req EXCEPT ![p].stats = IF ok THEN "visit_ok" ELSE "visit_failed"]
  /\ resp' = NoResp
  /\ UNCHANGED <<clock, ticks, nextId, reservations, tokens, keep, DB_READY, dbUp, dIn, dOut>>

NextNotify ==
  \/ NextRace
  \/ \E p \in RaceProcs, outcome \in Outcomes : MakeAnswers(p, outcome)
  \/ \E p \in RaceProcs, ok \in BOOLEAN : StatsAnswers(p, ok)

SpecNotify == InitRace /\ [][NextNotify]_vars

\* ------------------------------------------------- the sweep, run after run
\* POST /cron/auto-close is called again and again by process 1, each call
\* after the one before has returned, on day 1 at 12:00. The table holds a
\* backlog of overdue open reservations, two more than the batch limit.
\* Meanwhile process 2 serves owner confirm and decline requests on the last
\* reservation of the backlog, which is Pending.
BacklogRows == SweepLimit + 2

SweepRun == StartSweep(1) \/ SweepNow(1) \/ SweepSelect(1) \/ SweepUpdate(1)

InitSweepLive ==
  /\ keep = FALSE
  /\ DB_READY = TRUE
  /\ dbUp = TRUE
  /\ ticks = 0
  /\ clock = MinutesPerDay + 12 * 60
  /\ reservations = BacklogTable(BacklogRows)
  /\ nextId = BacklogRows + 1
  /\ tokens = [t \in TokenIds |-> NoRow]
  /\ req = [p \in 1..2 |-> Idle]
  /\ resp = NoResp
  /\ dIn = DefaultDecisionInput
  /\ dOut = Null

NextSweepLive ==
  \/ StartSweep(1)
  \/ SweepNow(1)
  \/ SweepSelect(1)
  \/ SweepUpdate(1)
  \/ \E op \in {"confirm", "decline"}, rid \in Restaurants :
       StartOwnerDecision(2, op, rid, BacklogRows)
  \/ OwnerDecisionUpdate(2)

\* the scheduler keeps calling the sweep, and every call runs to its end
SpecSweepLive == InitSweepLive /\ [][NextSweepLive]_vars /\ WF_vars(SweepRun)

\* ------------------------------------------------------------- two tenants
\* Reservation 1 belongs to tenant 1 and reservation 2 to tenant 2, both for
\* tomorrow noon; reservation 1 has its owner links when it was stored Pending.
\* Process 1 serves owner requests, which arrive with the key of either tenant
\* and either id in the path; process 2 serves the clicks on the links of
\* reservation 1.
Tenants == {1, 2}
TenantRows == 1..2

InitTenants ==
  /\ keep = FALSE
  /\ DB_READY = TRUE
  /\ dbUp = TRUE
  /\ ticks = 0
  /\ clock = StartClock
  /\ nextId = 3
  /\ \E st \in [TenantRows -> Open] :
       /\ reservations = [i \in TenantRows |-> ResRow(i, 1, HHMI(12, 0), st[i])]
       /\ tokens = IF st[1] = "Pending"
                     THEN IssueTokens([t \in TokenIds |-> NoRow], 1, 1, StartClock)
                     ELSE [t \in TokenIds |-> NoRow]
  /\ req = [p \in Procs |-> Idle]
  /\ resp = NoResp
  /\ dIn = DefaultDecisionInput
  /\ dOut = Null

NextTenants ==
  \/ \E op \in {"confirm", "decline"}, rid \in Tenants, id \in TenantRows :
       StartOwnerDecision(1, op, rid, id)
  \/ OwnerDecisionUpdate(1)
  \/ \E action \in {"complete", "no-show", "cancel"}, rid \in Tenants, id \in TenantRows :
       StartClose(1, action, rid, id)
  \/ CloseUpdate(1)
  \/ \E action \in {"confirm", "decline"}, tok \in {confirmTokenOf(1), declineTokenOf(1)} :
       StartClick(2, action, tok)
  \/ ConsumeUpdate(2)
  \/ ClickBefore(2)
  \/ ClickUpdate(2)

SpecTenants == InitTenants /\ [][NextTenants]_vars

\* ------------------------------------------- the database comes and goes
\* The middleware chain of the routes while the database fails and recovers:
\* the boot check, the key lookups, requireDbReady, GET /health/db and the
\* first query of a handler.  The routes are taken by their chain:
\*   owner_route   requireOwnerKey, requireDbReady   (/owner/reservations/...)
\*   api_route     requireApiKey with a tenant key, requireDbReady   (/reservations)
\*   master_route  requireApiKey with the master key of .env, requireDbReady
\*   admin_route   requireAdminKey, requireDbReady   (/cron/auto-close)
\*   link_route    requireDbReady   (/o/confirm/:token, /o/decline/:token)
DbRoutes == {"owner_route", "api_route", "master_route", "admin_route", "link_route"}
HealthRoutes == {"health_tenant", "health_master"}

\* the key lookup of the chain sends a query: requireOwnerKey always,
\* requireApiKey unless the key is the master key
AuthQueries(op) == op \in {"owner_route", "api_route", "health_tenant"}

BootProc == MaxProcs + 1

\* requireDbReady, then the handler sends its first query
requireDbReady(r) ==
  IF ~DB_READY THEN Done(r, 503, "DB not reachable. Check DATABASE_URL / network.")
  ELSE [r EXCEPT !.pc = "handler"]

\* what follows the key check: the gate, or the handler of /health/db
AfterAuth(r) ==
  IF r.op \in HealthRoutes THEN [r EXCEPT !.pc = "health_query"] ELSE requireDbReady(r)

\* a request arrives; a key that needs no lookup is checked at once
StartRoute(p, op) ==
  /\ p \in Procs
  /\ Free(p)
  /\ Move(p, IF AuthQueries(op) THEN [Begin(op, 0, 0, 0) EXCEPT !.pc = "auth"]
             ELSE AfterAuth(Begin(op, 0, 0, 0)))
  /\ UNCHANGED <<clock, ticks, nextId, reservations, tokens, keep, DB_READY, dbUp, dIn, dOut>>

\* the SELECT of requireApiKey / requireOwnerKey answers or throws
AuthAnswers(p) ==
  LET r == req[p] IN
  /\ r.pc = "auth"
  /\ Move(p, IF ~dbUp THEN Done(r, 500, "Auth failed") ELSE AfterAuth(r))
  /\ UNCHANGED <<clock, ticks, nextId, reservations, tokens, keep, DB_READY, dbUp, dIn, dOut>>

\* the first query of the handler answers, or throws into the catch block
HandlerAnswers(p) ==
  LET r == req[p] IN
  /\ r.pc = "handler"
  /\ Move(p, IF ~dbUp THEN Done(r, 500, "error") ELSE Done(r, 200, "ok"))
  /\ UNCHANGED <<clock, ticks, nextId, reservations, tokens, keep, DB_READY, dbUp, dIn, dOut>>

\* GET /health/db: SELECT NOW() sets the flag to what it finds
HealthAnswers(p) ==
  LET r == req[p] IN
  /\ r.pc = "health_query"
  /\ DB_READY' = dbUp
  /\ Move(p, IF dbUp THEN Done(r, 200, "ok") ELSE Done(r, 503, "down"))
  /\ UNCHANGED <<clock, ticks, nextId, reservations, tokens, keep, dbUp, dIn, dOut>>

\* the boot check: testDbConnection; when it fails the flag stays false
BootTest ==
  LET r == req[BootProc] IN
  /\ r.pc = "boot_test"
  /\ req' = [req EXCEPT ![BootProc] = IF dbUp THEN [r EXCEPT !.pc = "boot_init"]
                                        ELSE [r EXCEPT !.pc = "booted"]]
  /\ resp' = NoResp
  /\ DB_READY' = IF dbUp THEN DB_READY ELSE FALSE
  /\ UNCHANGED <<clock, ticks, nextId, reservations, tokens, keep, dbUp, dIn, dOut>>

\* await initDb() has returned (it catches its own errors): DB_READY = true
BootInit ==
  LET r == req[BootProc] IN
  /\ r.pc = "boot_init"
  /\ req' = [req EXCEPT ![BootProc] = [r EXCEPT !.pc = "booted"]]
  /\ resp' = NoResp
  /\ DB_READY' = TRUE
  /\ UNCHANGED <<clock, ticks, nextId, reservations, tokens, keep, dbUp, dIn, dOut>>

\* the database becomes unreachable, or reachable again
DbFlips ==
  /\ dbUp' = ~dbUp
  /\ resp' = NoResp
  /\ UNCHANGED <<clock, ticks, nextId, reservations, tokens, req, keep, DB_READY, dIn, dOut>>

InitBoot ==
  /\ clock = StartClock
  /\ ticks = 0
  /\ nextId = 1
  /\ reservations = [i \in ResIds |-> NoRow]
  /\ tokens = [t \in TokenIds |-> NoRow]
  /\ req = [p \in 1..BootProc |->
              IF p = BootProc THEN [Begin("boot", 0, 0, 0) EXCEPT !.pc = "boot_test"] ELSE Idle]
  /\ resp = NoResp
  /\ keep = FALSE
  /\ DB_READY = FALSE
  /\ dbUp \in BOOLEAN
  /\ dIn = DefaultDecisionInput
  /\ dOut = Null

NextBoot ==
  \/ \E p \in Procs, op \in DbRoutes \cup HealthRoutes : StartRoute(p, op)
  \/ \E p \in Procs : AuthAnswers(p)
  \/ \E p \in Procs : HandlerAnswers(p)
  \/ \E p \in Procs : HealthAnswers(p)
  \/ BootTest
  \/ BootInit
  \/ DbFlips

SpecBoot == InitBoot /\ [][NextBoot]_vars

\* ------------------------------------------------------------- properties
ClickOps == {"o_confirm", "o_decline"}
CloseOps == {"complete", "no-show", "cancel"}

\* C1. Terminal immutability: no step of any operation changes the stored
\* status of a reservation that is Completed, NoShow, Cancelled or Declined.
TerminalImmutability ==
  [][\A i \in ResIds :
       (reservations[i].exists /\ reservations[i].status \in Terminal)
         => (reservations'[i].exists /\ reservations'[i].status = reservations[i].status)]_vars

\* a close request that had read Pending lost to a decline and was refused
TerminalImmutabilityWitness ==
  \E i \in ResIds :
    /\ reservations[i].exists
    /\ reservations[i].status = "Declined"
    /\ resp.pc = "done"
    /\ resp.id = i
    /\ resp.op \in CloseOps
    /\ resp.msg = "State changed, try again"

LegalTransitions ==
  {<<"Pending", "Confirmed">>, <<"Pending", "Declined">>, <<"Confirmed", "Completed">>,
   <<"Pending", "NoShow">>, <<"Confirmed", "NoShow">>,
   <<"Pending", "Cancelled">>, <<"Confirmed", "Cancelled">>}

\* C2. Legal transitions only: every change of a stored status is one of the
\* seven legal transitions, so Pending never becomes Completed directly and
\* only a Pending reservation becomes Confirmed or Declined.
LegalTransitionsOnly ==
  [][\A i \in ResIds :
       (/\ reservations[i].exists
        /\ reservations'[i].exists
        /\ reservations'[i].status # reservations[i].status)
         => <<reservations[i].status, reservations'[i].status>> \in LegalTransitions]_vars

\* the owner has completed a reservation
LegalTransitionsOnlyWitness ==
  /\ resp.pc = "done"
  /\ resp.op = "complete"
  /\ resp.code = 200
  /\ reservations[resp.id].status = "Completed"

\* a confirm attempt on reservation i: the owner route, or the confirm link
\* opened with the confirm token of the reservation
ConfirmAttempt(r, i) ==
  \/ r.op = "confirm" /\ r.id = i
  \/ r.op = "o_confirm" /\ r.tok = confirmTokenOf(i)

\* processes p and q have each finished a confirm attempt on the Pending
\* reservation i, whose confirm link is still valid, and nothing else has run
TwoConfirmAttempts(i, p, q) ==
  /\ p # q
  /\ tokens[confirmTokenOf(i)].exists
  /\ tokens[confirmTokenOf(i)].expires_at >= clock
  /\ req[p].pc = "done"
  /\ ConfirmAttempt(req[p], i)
  /\ req[q].pc = "done"
  /\ ConfirmAttempt(req[q], i)
  /\ \A o \in DOMAIN req \ {p, q} : req[o].pc = "idle"

\* C3. No double transition: of two confirm attempts on the same Pending
\* reservation, in any interleaving, one is answered 200 and the other 409, and
\* the reservation is Confirmed with nothing else of its row changed.
NoDoubleConfirm ==
  \A i \in ResIds : \A p, q \in DOMAIN req :
    TwoConfirmAttempts(i, p, q)
      => /\ {req[p].code, req[q].code} = {200, 409}
         /\ reservations[i].status = "Confirmed"
         /\ reservations[i].closed_at = Null
         /\ reservations[i].closed_reason = ""

\* the link won and the owner route was told that the reservation is decided
NoDoubleConfirmWitness ==
  \E i \in ResIds : \E p, q \in DOMAIN req :
    /\ TwoConfirmAttempts(i, p, q)
    /\ req[p].op = "confirm"
    /\ req[p].msg = "Already decided"
    /\ req[q].op = "o_confirm"
    /\ req[q].code = 200

\* the request of process r has changed a status that was s
Won(r, s) ==
  /\ r.pc = "done"
  /\ \/ r.op \in {"confirm", "decline"} \cup ClickOps /\ r.code = 200 /\ s = "Pending"
     \/ r.op \in CloseOps /\ r.code = 200 /\ r.sb = s
     \/ r.op = "sweep" /\ s = "Confirmed" /\ r.completed > 0
     \/ r.op = "sweep" /\ s = "Pending" /\ r.noshow > 0

AtMostOneWinner ==
  \A s \in Open : Cardinality({p \in DOMAIN req : Won(req[p], s)}) <= 1

\* a conditional UPDATE whose WHERE names a status the row no longer has
\* leaves the tables alone and is answered 409 (the sweep: counts nothing)
LoserLeavesRow ==
  \A p \in DOMAIN req :
    LET r == req[p] IN
    req'[p] # r =>
      /\ (r.pc \in {"decide_update", "click_update"} /\ StatusOf(r.id, r.rid) # "Pending")
           => /\ reservations' = reservations
              /\ req'[p].pc = "done"
              /\ req'[p].code = 409
              /\ req'[p].msg = "Already decided"
      /\ (r.pc = "close_update" /\ StatusOf(r.id, r.rid) # r.sb)
           => /\ reservations' = reservations
              /\ req'[p].pc = "done"
              /\ req'[p].code = 409
              /\ req'[p].msg = "State changed, try again"
      /\ (r.pc = "sweep_update" /\ StatusOf(Head(r.rows).id, Head(r.rows).restaurant_id) # Head(r.rows).status)
           => /\ reservations' = reservations
              /\ req'[p].completed = r.completed
              /\ req'[p].noshow = r.noshow

\* C4. At most one racer wins: among the owner action, the link and the sweep
\* that name the same prior status at most one changes the status, and each
\* loser leaves the row unchanged and is answered 409 (the sweep skips the row).
AtMostOneRacerWins == []AtMostOneWinner /\ [][LoserLeavesRow]_vars

\* the link confirmed; the owner route was refused and the sweep skipped the row
AtMostOneRacerWinsWitness ==
  /\ req[Cron].pc = "done"
  /\ req[Cron].scanned = 1
  /\ req[Cron].completed = 0
  /\ req[Cron].noshow = 0
  /\ \E p, q \in Procs :
       /\ req[p].pc = "done" /\ req[p].op \in ClickOps /\ req[p].code = 200
       /\ req[q].pc = "done" /\ req[q].op \in CloseOps /\ req[q].code = 409
       /\ req[q].sb = "Pending"

\* the requests that have presented token t to the route of its action and to
\* which consumeOwnerToken has returned
Presented(t) ==
  {p \in DOMAIN req : /\ req[p].op = ClickOp(tokens[t].action)
                      /\ req[p].tok = t
                      /\ req[p].pc \notin {"idle", "consume_update"}}

\* consumeOwnerToken has returned ok to the request of process r
Consumed(r) ==
  \/ r.pc \in {"click_before", "click_update"}
  \/ r.pc = "done" /\ r.msg \in {"Confirmed", "Declined", "Already decided"}

\* C5. Token single use: of the calls of consumeOwnerToken with the same valid
\* token, one after the other or overlapping, exactly one returns ok and every
\* other returns 'Token already used'.
TokenSingleUse ==
  \A t \in TokenIds :
    (tokens[t].exists /\ tokens[t].expires_at >= clock /\ Presented(t) # {})
      => /\ Cardinality({p \in Presented(t) : Consumed(req[p])}) = 1
         /\ \A p \in Presented(t) :
              ~Consumed(req[p]) => (req[p].code = 409 /\ req[p].msg = "Token already used")

\* the same token has been presented twice
TokenSingleUseWitness ==
  \E t \in TokenIds :
    /\ tokens[t].exists
    /\ tokens[t].expires_at >= clock
    /\ Cardinality(Presented(t)) = 2
    /\ \E p \in Presented(t) : req[p].msg = "Token already used"

\* token t is used, or past its expiry
TokenSpent(t) ==
  /\ tokens[t].exists
  /\ tokens[t].used_at # Null \/ tokens[t].expires_at < clock

\* the handler of a link has returned in its first step
RefusedAtOnce == resp' # NoResp /\ resp'.op \in ClickOps /\ req' = req

\* C6. Token authorization: a request that presents a used or an expired token
\* gets no further than the checks of consumeOwnerToken: it is answered with an
\* error, changes no reservation and does not go on to the status update.
SpentTokenRefused ==
  [][\A t \in TokenIds :
       TokenSpent(t) =>
         /\ \A p \in DOMAIN req :
              ~(req[p].pc = "idle" /\ req'[p].pc = "consume_update" /\ req'[p].tok = t)
         /\ (RefusedAtOnce /\ resp'.tok = t)
              => (resp'.code \in {409, 410} /\ reservations' = reservations)]_vars

\* an expired, unused token has been refused
SpentTokenRefusedWitness ==
  /\ resp.pc = "done"
  /\ resp.op \in ClickOps
  /\ resp.code = 410
  /\ resp.tok \in TokenIds
  /\ tokens[resp.tok].used_at = Null
  /\ tokens[resp.tok].expires_at < clock

\* the checks of the validation order that token t fails for the action:
\* 1 existence, 2 action, 3 use, 4 expiry
FailingChecks(t, action) ==
  LET known == t \in TokenIds /\ tokens[t].exists IN
  (IF ~known THEN {1} ELSE {})
    \cup (IF known /\ tokens[t].action # action THEN {2} ELSE {})
    \cup (IF known /\ tokens[t].used_at # Null THEN {3} ELSE {})
    \cup (IF known /\ tokens[t].expires_at < clock THEN {4} ELSE {})

FirstOf(S) == CHOOSE k \in S : \A j \in S : k <= j

CheckError == <<"Token not found", "Token action mismatch", "Token already used", "Token expired">>
CheckCode == <<404, 409, 409, 410>>

ClickAction(op) == IF op = "o_confirm" THEN "confirm" ELSE "decline"

\* C7. Token validation order: a non-blank token that fails a check is refused
\* with the error of the first check it fails in the order existence, action,
\* use, expiry; a token that fails none passes; no error touches a token row.
ValidationOrder ==
  [][/\ (RefusedAtOnce /\ resp'.tok # 0)
          => LET F == FailingChecks(resp'.tok, ClickAction(resp'.op)) IN
             /\ F # {}
             /\ resp'.msg = CheckError[FirstOf(F)]
             /\ resp'.code = CheckCode[FirstOf(F)]
     /\ \A p \in DOMAIN req :
          (req[p].pc = "idle" /\ req'[p].pc = "consume_update")
            => FailingChecks(req'[p].tok, ClickAction(req'[p].op)) = {}
     /\ (resp' # NoResp /\ resp'.op \in ClickOps /\ resp'.code # 200)
          => tokens' = tokens]_vars

\* a token that is used and expired has been refused as already used
ValidationOrderWitness ==
  /\ resp.pc = "done"
  /\ resp.op \in ClickOps
  /\ resp.msg = "Token already used"
  /\ resp.tok \in TokenIds
  /\ tokens[resp.tok].action = ClickAction(resp.op)
  /\ tokens[resp.tok].used_at # Null
  /\ tokens[resp.tok].expires_at < clock

\* the tokens of reservation i for the action
TokensOf(i, action) ==
  {t \in TokenIds : /\ tokens[t].exists
                    /\ tokens[t].reservation_id = i
                    /\ tokens[t].action = action}

\* C8. Token issuance, as stated: when a create request has been answered, with
\* a success or an error, the reservation it stored as Pending has exactly one
\* confirm and one decline token, both unused and with the same expiry, and the
\* reservation it stored as Confirmed has none.
TokensIssuedWithPending ==
  (resp.pc = "done" /\ resp.op = "create" /\ resp.id \in ResIds)
    => IF resp.status = "Pending"
         THEN /\ Cardinality(TokensOf(resp.id, "confirm")) = 1
              /\ Cardinality(TokensOf(resp.id, "decline")) = 1
              /\ \A t, u \in TokensOf(resp.id, "confirm") \cup TokensOf(resp.id, "decline") :
                   /\ tokens[t].used_at = Null
                   /\ tokens[t].expires_at = tokens[u].expires_at
         ELSE TokensOf(resp.id, "confirm") \cup TokensOf(resp.id, "decline") = {}

\* C9. Closure metadata, as stated: closed_at is set exactly when the status
\* is Completed, NoShow, Declined or Cancelled.
ClosedAtIffTerminal ==
  \A i \in ResIds :
    reservations[i].exists
      => (reservations[i].closed_at # Null <=> reservations[i].status \in Terminal)

\* C10. Threshold rule: whatever the date, the cutoff and the time, a party
\* larger than the tenant's ceiling is Pending with reason group_over_threshold.
ThresholdRule ==
  (dOut # <<>> /\ dIn.maxPeople.finite /\ dIn.people > dIn.maxPeople.v)
    => (dOut[1].status = "Pending" /\ dOut[1].reason = "group_over_threshold")

\* a large party for a later day, which the date rule alone would confirm
ThresholdRuleWitness ==
  /\ dOut # <<>>
  /\ dIn.maxPeople.finite
  /\ dIn.people > dIn.maxPeople.v
  /\ dIn.date # dIn.today
  /\ dOut[1].status = "Pending"

\* two digits, a colon and two digits that are a time of the day
IsHHMM(s) ==
  /\ Len(s) = 5
  /\ s[3] = Colon
  /\ \A i \in {1, 2, 4, 5} : s[i] \in 0..9
  /\ s[1] * 10 + s[2] <= 23
  /\ s[4] * 10 + s[5] <= 59

\* decideReservationStatus has run for a party that is not above the ceiling
DecidedWithinCeiling ==
  /\ dOut # <<>>
  /\ dIn.maxPeople.finite
  /\ dIn.people <= dIn.maxPeople.v

\* C11. Cutoff boundary: for today and a party within the ceiling, the decision
\* is Confirmed (same_day_before_cutoff) when now is a minute before the cutoff
\* and Pending (same_day_after_cutoff) when now is the cutoff or later.
CutoffBoundary ==
  (DecidedWithinCeiling /\ dIn.date = dIn.today /\ IsHHMM(dIn.cutoffHHMI))
    => IF ToMinutes(dIn.now) < ToMinutes(dIn.cutoffHHMI)
         THEN dOut[1].status = "Confirmed" /\ dOut[1].reason = "same_day_before_cutoff"
         ELSE dOut[1].status = "Pending" /\ dOut[1].reason = "same_day_after_cutoff"

\* now is exactly the cutoff 11:00
CutoffBoundaryWitness ==
  /\ DecidedWithinCeiling
  /\ dIn.date = dIn.today
  /\ dIn.cutoffHHMI = HHMI(11, 0)
  /\ dIn.now = HHMI(11, 0)
  /\ dOut[1].status = "Pending"

\* C12. Future-date rule: for a later day and a party within the ceiling the
\* decision is Confirmed (future_auto_confirm), whatever now and the cutoff are.
FutureDateRule ==
  (DecidedWithinCeiling /\ dIn.date > dIn.today)
    => (dOut[1].status = "Confirmed" /\ dOut[1].reason = "future_auto_confirm")

\* a later day, decided after the cutoff time of the day
FutureDateRuleWitness ==
  /\ DecidedWithinCeiling
  /\ dIn.date > dIn.today
  /\ IsHHMM(dIn.cutoffHHMI)
  /\ ToMinutes(dIn.now) >= ToMinutes(dIn.cutoffHHMI)
  /\ dOut[1].status = "Confirmed"

BodyWellFormed == ~dIn.missing /\ dIn.people > 0 /\ normalizeTimeHHMI(dIn.time) # Null

\* the instants at which the request of SpecCreate has been in service so far
Instants == (clock - ticks)..clock

\* at the instant t the date of the body is today and its time is before now
PassedAt(t) ==
  /\ dIn.date = t \div MinutesPerDay
  /\ dIn.time[1] * 60 + dIn.time[2] < t % MinutesPerDay

\* what the guard and the decision give when both act on the instant t
OutcomeAt(rid, t) ==
  IF PassedAt(t) THEN [status |-> "rejected", reason |-> "TIME_PASSED"]
  ELSE decideReservationStatus(dIn.date = getTodayAL(t), getRestaurantRules(rid),
                               Num(dIn.people), getNowHHMI_AL(t))

\* C14. Decision determinism: the guard and the decision of one request act
\* on one value of today and now, so that the outcome of the request (the
\* rejection, or the status and reason) is the outcome at one instant at
\* which the request was in service.
OneInstant ==
  /\ (req[1].pc = "create_insert")
       => \E t \in Instants :
            OutcomeAt(req[1].rid, t) = [status |-> req[1].status, reason |-> req[1].reason]
  /\ (req[1].pc = "done" /\ req[1].msg = "TIME_PASSED")
       => \E t \in Instants : PassedAt(t)

\* C15. Past-time guard: a request whose date is today and whose time is
\* before now for as long as it is in service is rejected with TIME_PASSED by
\* the guard; the decision does not run and no reservation is stored.
PastTimeGuard ==
  (BodyWellFormed /\ \A t \in Instants : PassedAt(t))
    => /\ \/ req[1].pc \in {"idle", "guard_today", "guard_now"}
          \/ req[1].pc = "done" /\ req[1].code = 400 /\ req[1].msg = "TIME_PASSED"
       /\ req[1].status = "null"
       /\ \A i \in ResIds : ~reservations[i].exists

\* rejected with TIME_PASSED after the minute changed during the guard
PastTimeGuardWitness ==
  /\ BodyWellFormed
  /\ \A t \in Instants : PassedAt(t)
  /\ ticks > 0
  /\ req[1].pc = "done"
  /\ req[1].msg = "TIME_PASSED"

\* the request of SpecCreate was answered with the error msg
RejectedWith(msg) == req[1].pc = "done" /\ req[1].code = 400 /\ req[1].msg = msg

\* C16. Create rejections leave the state unchanged: a body with a missing
\* field, a party size that is not positive or a time that is not a time of
\* the day is answered MISSING_FIELD, INVALID_PEOPLE, INVALID_TIME, and after
\* any of these or TIME_PASSED there is no reservation, no token and no event.
CreateRejections ==
  /\ (req[1].pc # "idle" /\ dIn.missing) => RejectedWith("MISSING_FIELD")
  /\ (req[1].pc # "idle" /\ ~dIn.missing /\ dIn.people <= 0) => RejectedWith("INVALID_PEOPLE")
  /\ (/\ req[1].pc # "idle" /\ ~dIn.missing /\ dIn.people > 0
      /\ (dIn.time = <<>> \/ dIn.time[1] > 23 \/ dIn.time[2] > 59))
       => RejectedWith("INVALID_TIME")
  /\ (\E msg \in {"MISSING_FIELD", "INVALID_PEOPLE", "INVALID_TIME", "TIME_PASSED"} :
        RejectedWith(msg))
       => /\ nextId = 1
          /\ \A i \in ResIds : ~reservations[i].exists
          /\ \A t \in TokenIds : ~tokens[t].exists
          /\ req[1].event = "none"

\* a body whose time is 24:00 was rejected
CreateRejectionsWitness ==
  /\ RejectedWith("INVALID_TIME")
  /\ ~dIn.missing
  /\ dIn.time = <<24, 0>>
  /\ \A i \in ResIds : ~reservations[i].exists

\* the time 120 minutes before now, or midnight when that is before midnight
CutoffMinutes(now) ==
  IF (now % MinutesPerDay) >= bufferMinutes THEN (now % MinutesPerDay) - bufferMinutes ELSE 0

\* an open reservation of a day before today, or of today at or before the cutoff
Overdue(row, now) ==
  /\ row.exists
  /\ row.status \in Open
  /\ \/ row.date < now \div MinutesPerDay
     \/ row.date = now \div MinutesPerDay /\ ToMinutes(row.time) <= CutoffMinutes(now)

\* the row after the sweep has closed it at the instant now
AutoClosed(row, now) ==
  [row EXCEPT !.status = IF row.status = "Confirmed" THEN "Completed" ELSE "NoShow",
              !.closed_at = <<now>>, !.closed_reason = "auto_close_cron"]

\* the overdue reservations of the table before the first run
OverdueBefore == {i \in DOMAIN dIn : Overdue(dIn[i], clock)}

\* the reservations that differ from the table before the first run
Changed == {i \in DOMAIN dIn : reservations[i] # dIn[i]}

\* C17. Sweep selection and mapping: after a sweep that ran alone, the changed
\* reservations are overdue open ones, all of them or as many as the batch
\* limit (the earliest by date and time); each went Confirmed -> Completed or
\* Pending -> NoShow with closed_at set and closed_reason auto_close_cron, and
\* the summary counts them.
SweepEffect ==
  (req[1].pc = "done" /\ req[2].pc = "idle")
    => /\ Changed \subseteq OverdueBefore
       /\ \A i \in Changed : reservations[i] = AutoClosed(dIn[i], clock)
       /\ Cardinality(Changed) = IF Cardinality(OverdueBefore) > SweepLimit THEN SweepLimit
                                 ELSE Cardinality(OverdueBefore)
       /\ \A i \in Changed, j \in OverdueBefore \ Changed :
            \/ dIn[i].date < dIn[j].date
            \/ dIn[i].date = dIn[j].date /\ ToMinutes(dIn[i].time) <= ToMinutes(dIn[j].time)
       /\ req[1].code = 200
       /\ req[1].scanned = Cardinality(Changed)
       /\ req[1].completed = Cardinality({i \in Changed : dIn[i].status = "Confirmed"})
       /\ req[1].noshow = Cardinality({i \in Changed : dIn[i].status = "Pending"})

\* one reservation was completed by the sweep, an open one of today at a later
\* time was left as it was
SweepEffectWitness ==
  /\ req[1].pc = "done"
  /\ req[2].pc = "idle"
  /\ \E i, j \in DOMAIN dIn :
       /\ dIn[i].status = "Confirmed"
       /\ reservations[i].status = "Completed"
       /\ reservations[i].closed_reason = "auto_close_cron"
       /\ dIn[j].status \in Open
       /\ dIn[j].date = clock \div MinutesPerDay
       /\ reservations[j] = dIn[j]

\* C18 as stated. Auto-close idempotence for any number of overdue open
\* reservations: the second of two runs reports completed = 0 and noshow = 0.
SecondRunCountsNothing ==
  (req[2].pc = "done") => (req[2].completed = 0 /\ req[2].noshow = 0)

\* the first run selects all the overdue open reservations
WithinLimit == Cardinality(OverdueBefore) <= SweepLimit

\* C18. Auto-close idempotence when the overdue open reservations before the
\* first run are not more than the batch limit: the second of two runs in
\* succession reports completed = 0 and noshow = 0 and changes no reservation.
SecondRunChangesNothing ==
  /\ [](WithinLimit => SecondRunCountsNothing)
  /\ [][(WithinLimit /\ req[2].pc # "idle") => reservations' = reservations]_vars

\* the first run closed a reservation and the second run has returned
SecondRunChangesNothingWitness ==
  /\ WithinLimit
  /\ req[1].completed + req[1].noshow > 0
  /\ req[2].pc = "done"
  /\ req[2].completed = 0
  /\ req[2].noshow = 0

\* the sweep of SpecSweepRace is about to update a row whose status is no
\* longer the one it selected
LostRace(r) ==
  /\ r.pc = "sweep_update"
  /\ reservations[Head(r.rows).id].status # Head(r.rows).status

\* C19. The sweep tolerates lost races: when another operation has changed
\* the status of a selected row before the sweep's conditional update, the
\* update changes nothing, the row is not counted, the sweep goes on with the
\* remaining rows and answers success with the rows it did close.
SweepToleratesLostRace ==
  /\ [](req[2].pc = "done"
          => /\ req[2].code = 200
             /\ req[2].msg = "Auto-close done"
             /\ req[2].completed + req[2].noshow =
                  Cardinality({i \in DOMAIN reservations :
                                 reservations[i].closed_reason = "auto_close_cron"}))
  /\ [][(LostRace(req[2]) /\ req'[2] # req[2])
          => /\ reservations' = reservations
             /\ req'[2].completed = req[2].completed
             /\ req'[2].noshow = req[2].noshow
             /\ IF Len(req[2].rows) > 1
                  THEN req'[2].pc = "sweep_update" /\ req'[2].rows = Tail(req[2].rows)
                  ELSE req'[2].pc = "done" /\ req'[2].code = 200]_vars

\* both rows were selected, the owner changed the first before the sweep's
\* update, the sweep closed the second and returned
SweepToleratesLostRaceWitness ==
  /\ req[2].pc = "done"
  /\ req[2].code = 200
  /\ req[2].scanned = 2
  /\ req[2].completed + req[2].noshow = 1
  /\ reservations[1].status # dIn[1].status
  /\ reservations[1].closed_reason # "auto_close_cron"
  /\ reservations[2].closed_reason = "auto_close_cron"

\* C20. Sweep cutoff arithmetic: at every minute of the day the cutoff is the
\* time 120 minutes before now, or 00:00 when that is before midnight; it is
\* a zero-padded HH:MM between 00:00 and 23:59 and not later than now.
CutoffArithmetic ==
  (dOut # <<>>)
    => /\ IsHHMM(dOut[1])
       /\ ToMinutes(dOut[1]) = CutoffMinutes(clock)
       /\ ToMinutes(dOut[1]) <= clock % MinutesPerDay
       /\ ~StrLess(getNowHHMI_AL(clock), dOut[1])

\* at 01:59 the cutoff is 00:00
CutoffArithmeticWitness ==
  /\ clock = bufferMinutes - 1
  /\ dOut = <<HHMI(0, 0)>>

\* minutes between the service slot of a reservation and the instant now
ElapsedSince(row, now) == now - (row.date * MinutesPerDay + ToMinutes(row.time))

\* C21. The sweep closes by elapsed time: every reservation the sweep has
\* closed had its service slot at least the buffer of 120 minutes before the
\* instant of the sweep, also when the sweep runs shortly after midnight.
SweepClosesByElapsedTime ==
  \A i \in DOMAIN reservations :
    (reservations[i].exists /\ reservations[i].closed_reason = "auto_close_cron")
      => ElapsedSince(reservations[i], reservations[i].closed_at[1]) >= bufferMinutes

\* the type of the event that announces a new status
EventFor(status) ==
  IF status = "Confirmed" THEN "reservation_confirmed"
  ELSE IF status = "Declined" THEN "reservation_declined"
  ELSE IF status = "Completed" THEN "reservation_completed"
  ELSE IF status = "NoShow" THEN "reservation_no_show"
  ELSE "reservation_cancelled"

\* the step changes the status of the stored reservation i
Transition(i) ==
  /\ reservations[i].exists
  /\ reservations'[i].status # reservations[i].status

\* C22. Event on every transition: every step that changes the status of a
\* reservation, by an owner-key action, a link or the sweep, hands one event
\* to the dispatcher, of the type of the new status and with the id of the
\* reservation.
EventOnEveryTransition ==
  [][\A i \in DOMAIN reservations :
       Transition(i) => /\ resp'.event = EventFor(reservations'[i].status)
                        /\ resp'.id = i
                        /\ resp'.sent = <<"inflight">>]_vars

\* the create request of SpecCreate was answered 201 or 202
Created == req[1].pc = "done" /\ req[1].code \in {201, 202}

\* C23. Creation event type: a successful create request fires one event, of
\* type reservation_created exactly when the reservation was stored Pending,
\* then carrying the confirm and the decline link of the tokens just issued,
\* and of type reservation_confirmed exactly when it was stored Confirmed.
CreationEvent ==
  Created =>
    LET row == reservations[req[1].id] IN
    /\ row.exists
    /\ Len(req[1].sent) = 1
    /\ req[1].event \in {"reservation_created", "reservation_confirmed"}
    /\ req[1].event = "reservation_created" <=> row.status = "Pending"
    /\ req[1].event = "reservation_confirmed" <=> row.status = "Confirmed"
    /\ IF row.status = "Pending"
         THEN /\ Len(req[1].links) = 2
              /\ \A k \in 1..2 :
                   /\ tokens[req[1].links[k]].exists
                   /\ tokens[req[1].links[k]].reservation_id = req[1].id
              /\ tokens[req[1].links[1]].action = "confirm"
              /\ tokens[req[1].links[2]].action = "decline"
         ELSE req[1].links = <<>>

\* a party above the ceiling was stored Pending and announced with its links
CreationEventWitness ==
  /\ Created
  /\ req[1].code = 202
  /\ req[1].event = "reservation_created"
  /\ Len(req[1].links) = 2
  /\ reservations[req[1].id].status = "Pending"

\* a side effect that the handler of process p left running ends in this step
SideEffectEnds(p) ==
  /\ req[p].pc = "done"
  /\ req'[p].sent # req[p].sent \/ req'[p].stats # req[p].stats

\* C24. Side-effect failures are absorbed: when the notification dispatch or
\* the customer-stats refresh of a transition succeeds, fails or times out, the
\* stored reservations and the result returned to the caller stay as they
\* were, and no further dispatch attempt is started.
SideEffectsAbsorbed ==
  [][\A p \in RaceProcs :
       SideEffectEnds(p) =>
         /\ reservations' = reservations
         /\ tokens' = tokens
         /\ req'[p] = [req[p] EXCEPT !.sent = req'[p].sent, !.stats = req'[p].stats]
         /\ Len(req'[p].sent) = 1
         /\ req'[p].sent # req[p].sent => req'[p].sent[1] \in Outcomes]_vars

\* an owner completed a reservation; the dispatch and the stats refresh both
\* failed and the reservation is still Completed
SideEffectsAbsorbedWitness ==
  \E p \in RaceProcs :
    /\ req[p].pc = "done"
    /\ req[p].code = 200
    /\ req[p].sent = <<"failed">>
    /\ req[p].stats = "visit_failed"
    /\ reservations[req[p].id].status = "Completed"
    /\ reservations[req[p].id].closed_reason = "owner_complete"

\* the status an event of this type announces
Announced(event) ==
  IF event = "reservation_created" THEN "Pending" ELSE
  IF event = "reservation_confirmed" THEN "Confirmed" ELSE
  IF event = "reservation_declined" THEN "Declined" ELSE
  IF event = "reservation_completed" THEN "Completed" ELSE
  IF event = "reservation_no_show" THEN "NoShow" ELSE "Cancelled"

\* process p has inserted the reservation of its create request in this step
Inserted(p) ==
  /\ req[p].pc = "create_insert"
  /\ req'[p].pc \in {"create_tokens", "create_sync"}

\* C25. Notify only after store: a handler hands an event to the dispatcher
\* only when the write that stored the announced status has succeeded (the
\* INSERT of an earlier step of the create request, the conditional UPDATE of
\* this step otherwise), and it answers while the dispatch is still in flight.
NotifyAfterStore ==
  /\ [][\A p \in DOMAIN req :
          Inserted(p) => /\ ~reservations[req'[p].id].exists
                         /\ reservations'[req'[p].id].exists
                         /\ reservations'[req'[p].id].status = req'[p].status]_vars
  /\ [][resp'.event # "none" =>
          /\ resp'.sent = <<"inflight">>
          /\ reservations'[resp'.id].exists
          /\ IF resp'.op = "create"
               THEN /\ reservations[resp'.id].exists
                    /\ reservations' = reservations
                    /\ resp'.status = Announced(resp'.event)
                    /\ \E p \in DOMAIN req :
                         /\ req[p].pc = "create_sync"
                         /\ req[p].id = resp'.id
                         /\ req[p].status = resp'.status
               ELSE /\ reservations'[resp'.id].status = Announced(resp'.event)
                    /\ reservations[resp'.id].status # Announced(resp'.event)]_vars

\* a create request has just been answered 202: its Pending reservation is
\* stored and its reservation_created event is in flight
NotifyAfterStoreWitness ==
  /\ resp.op = "create"
  /\ resp.code = 202
  /\ resp.event = "reservation_created"
  /\ resp.sent = <<"inflight">>
  /\ reservations[resp.id].exists

\* C26. Visit statistics on completion: every transition of a reservation to
\* Completed, by the owner's complete action or by the auto-close sweep, starts
\* one refresh of the customer's statistics, and no other transition does.
VisitStatsOnCompletion ==
  [][\A i \in DOMAIN reservations :
       Transition(i) =>
         ((reservations'[i].status = "Completed")
            <=> (resp'.stats = "visit" /\ resp'.id = i))]_vars

\* the conditional update of the handler answered in this step hit no row
ZeroRows(r) ==
  /\ r.code = 409
  /\ r.msg \in {"Already decided", "State changed, try again"}

\* C27. Conflict reports current status: whenever a transition's conditional
\* update affects zero rows on an existing reservation, the 409 names the
\* status the reservation has at that moment, also when a concurrent request
\* changed it between this operation's read and its update.
ConflictReportsCurrentStatus ==
  [][(ZeroRows(resp') /\ reservations'[resp'.id].exists)
       => Reported(resp') = reservations'[resp'.id].status]_vars

\* C28. AlreadyClosed on terminal reservations: an owner complete, no-show or
\* cancel request on a reservation of the tenant whose status is Completed,
\* NoShow, Cancelled or Declined is answered 409 "Already closed" with the
\* current record, and changes nothing in the reservation.
AlreadyClosedOnTerminal ==
  [][\A p \in RaceProcs, action \in CloseOps, rid \in Restaurants :
       (/\ StartClose(p, action, rid, 1)
        /\ Found(1, rid)
        /\ reservations[1].status \in Terminal)
         => /\ resp'.code = 409
            /\ resp'.msg = "Already closed"
            /\ resp'.data
            /\ reservations' = reservations]_vars

\* the link request of process p has consumed its token and is about to update
ClickConsumed(p) ==
  /\ req[p].pc = "click_update"
  /\ tokens[req[p].tok].used_at # Null

\* C29. Click-link on a decided reservation: when the token of a link request
\* was consumed and the reservation is no longer Pending, the request is
\* answered with the "Already decided" page (409, not a server error), fires
\* no event and leaves the reservation as it is.
ClickOnDecided ==
  [][\A p \in Procs :
       (/\ ClickConsumed(p)
        /\ reservations[req[p].id].status # "Pending"
        /\ req'[p] # req[p])
         => /\ req'[p].pc = "done"
            /\ resp' = req'[p]
            /\ resp'.code = 409
            /\ resp'.msg = "Already decided"
            /\ resp'.event = "none"
            /\ reservations' = reservations]_vars

\* a link request whose token was consumed found the reservation decided by
\* someone else and was answered "Already decided"
ClickOnDecidedWitness ==
  \E p \in Procs :
    /\ req[p].pc = "done"
    /\ req[p].op \in ClickOps
    /\ req[p].code = 409
    /\ req[p].msg = "Already decided"
    /\ tokens[req[p].tok].used_at # Null
    /\ reservations[req[p].id].status \in Terminal \cup {"Confirmed"}

\* the defaults: what the environment configures, the hard-coded 6 and 11:00
\* where it configures nothing or nothing usable
FallbackMaxPeople(env) ==
  IF env.MAX_AUTO_CONFIRM_PEOPLE.set /\ FinitePositive(env.MAX_AUTO_CONFIRM_PEOPLE.num)
    THEN {env.MAX_AUTO_CONFIRM_PEOPLE.num}
  ELSE IF env.MAX_AUTO_CONFIRM_PEOPLE.set THEN {env.MAX_AUTO_CONFIRM_PEOPLE.num, Num(6)}
  ELSE {Num(6)}
FallbackCutoff(env) ==
  IF env.SAME_DAY_CUTOFF_HHMI.set /\ normalizeTimeHHMI(env.SAME_DAY_CUTOFF_HHMI.raw) # Null
    THEN normalizeTimeHHMI(env.SAME_DAY_CUTOFF_HHMI.raw)
  ELSE HHMI(11, 0)

\* the lookup gave no usable ceiling / no usable cutoff
NoCeiling(lookup) ==
  lookup.kind # "row" \/ ~FinitePositive(lookup.row.max_auto_confirm_people)
NoCutoff(lookup) ==
  lookup.kind # "row" \/ normalizeTimeHHMI(lookup.row.same_day_cutoff_hhmi) = Null

UniformUnavailability ==
  [][(resp'.op \in DbRoutes \cup HealthRoutes /\ ~dbUp) => resp'.code = 503]_vars

\* C32. Create output: the body answered to a successful create request holds
\* the assigned id, the correlation id and the resulting status, and holds the
\* two one-time action links if and only if that status is Pending.
CreateOutput ==
  Created =>
    /\ {"id", "reservation_id", "status"} \subseteq req[1].body
    /\ reservations[req[1].id].exists
    /\ req[1].status = "Pending" <=> {"confirm_url", "decline_url"} \subseteq req[1].body

\* no reservation is open and overdue
NoneOverdue == \A i \in DOMAIN reservations : ~Overdue(reservations[i], clock)

\* C33. Eventual closure: when the sweep is called again and again and every
\* call completes, every open overdue reservation is eventually in a terminal
\* status and stays there, also with more overdue reservations than the batch
\* limit and with owner requests racing on them.
EventualClosure == <>[]NoneOverdue

\* the backlog is closed: the owner confirmed its last reservation, and a later
\* run of the sweep completed it
EventualClosureWitness ==
  /\ NoneOverdue
  /\ reservations[SweepLimit + 1].closed_reason = "auto_close_cron"
  /\ reservations[BacklogRows].status = "Completed"
  /\ reservations[BacklogRows].closed_reason = "auto_close_cron"

\* a link request that presented token t to the route of its action has been
\* answered in its first step
RepeatedClick(t) ==
  /\ RefusedAtOnce
  /\ resp'.tok = t
  /\ resp'.op = ClickOp(tokens[t].action)

\* C34. Consumption precedes transition and is not undone: a link request
\* reaches its reservation update only with its token marked used, the update
\* step leaves the token as it is whether it changes the reservation or not,
\* no step changes a token that is used, and a click with a used token is
\* answered 409 'Token already used' and never goes on to the update.
ConsumptionNotUndone ==
  [][/\ \A p \in Procs :
          (req[p].pc = "click_update" /\ req'[p] # req[p])
            => /\ tokens[req[p].tok].used_at # Null
               /\ tokens' = tokens
     /\ \A t \in TokenIds :
          (tokens[t].exists /\ tokens[t].used_at # Null)
            => /\ tokens'[t] = tokens[t]
               /\ \A p \in Procs :
                    ~(req[p].pc = "idle" /\ req'[p].pc = "consume_update" /\ req'[p].tok = t)
               /\ RepeatedClick(t)
                    => /\ resp'.code = 409
                       /\ resp'.msg = "Token already used"
                       /\ reservations' = reservations]_vars

\* the confirm link was clicked again after its first click had consumed the
\* token and found the reservation declined by the owner
ConsumptionNotUndoneWitness ==
  \E t \in TokenIds :
    /\ resp.pc = "done"
    /\ resp.op = "o_confirm"
    /\ resp.tok = t
    /\ resp.msg = "Token already used"
    /\ tokens[t].exists
    /\ tokens[t].action = "confirm"
    /\ reservations[tokens[t].reservation_id].status = "Declined"
    /\ \A p \in Procs : req[p].pc = "idle"

TransitionOps == {"confirm", "decline"} \cup CloseOps \cup ClickOps

\* the answer r refuses a transition attempt
Failed(r) == r.pc = "done" /\ r.op \in TransitionOps /\ r.code # 200

\* process p takes a step of a transition handler
Attempts(p) == req'[p] # req[p] /\ (req[p].op \in TransitionOps \/ req'[p].op \in TransitionOps)

\* C35. Failed attempts have no side effects: a step that answers a transition
\* attempt with an error fires no event, syncs no events-table status,
\* refreshes no customer statistics and changes no reservation, and when the
\* error is a token error it changes no token either; the steps of a handler
\* before its answer change no reservation and have none of these side
\* effects, and the only token they change is the one the request consumes.
FailedAttemptsInert ==
  [][/\ Failed(resp')
          => /\ resp'.event = "none"
             /\ resp'.sent = <<>>
             /\ resp'.sync = "none"
             /\ resp'.stats = "none"
             /\ reservations' = reservations
             /\ tokens' = tokens
     /\ \A p \in Procs :
          (Attempts(p) /\ resp' = NoResp)
            => /\ req'[p].event = "none"
               /\ req'[p].sync = "none"
               /\ req'[p].stats = "none"
               /\ reservations' = reservations
               /\ tokens' # tokens => req[p].pc = "consume_update"]_vars

\* a close request that lost the race has just been answered with the conflict
\* its conditional UPDATE found, and the reservation is as the winner left it
FailedAttemptsInertWitness ==
  /\ resp.pc = "done"
  /\ resp.op \in CloseOps
  /\ resp.code = 409
  /\ resp.msg = "State changed, try again"
  /\ reservations[resp.id].status # resp.sb

\* reservation id exists and belongs to another tenant than rid
Foreign(rid, id) ==
  /\ id \in DOMAIN reservations
  /\ reservations[id].exists
  /\ reservations[id].restaurant_id # rid

\* C36. Tenant isolation of transitions: an owner request with the key of one
\* tenant on the id of a reservation of another tenant changes no reservation
\* and is answered 404 'Reservation not found'; a link request changes no
\* reservation but the one its token row records, in the tenant it records.
TenantIsolation ==
  [][/\ \A p \in Procs, rid \in Tenants, id \in TenantRows :
          Foreign(rid, id)
            => /\ (\E action \in CloseOps : StartClose(p, action, rid, id))
                    => /\ resp'.code = 404
                       /\ resp'.msg = "Reservation not found"
                       /\ reservations' = reservations
               /\ (\E op \in {"confirm", "decline"} : StartOwnerDecision(p, op, rid, id))
                    => /\ req'[p].pc = "decide_update"
                       /\ reservations' = reservations
     /\ \A p \in Procs :
          (/\ req[p].pc \in {"decide_update", "close_update"}
           /\ Foreign(req[p].rid, req[p].id)
           /\ req'[p] # req[p])
            => /\ resp'.code = 404
               /\ resp'.msg = "Reservation not found"
               /\ reservations' = reservations
     /\ \A p \in Procs :
          (req[p].op \in ClickOps /\ req'[p] # req[p])
            => \A i \in DOMAIN reservations :
                 reservations'[i] # reservations[i]
                   => /\ i = tokens[req[p].tok].reservation_id
                      /\ reservations[i].restaurant_id = tokens[req[p].tok].restaurant_id]_vars

\* tenant 1 has just been refused on the reservation of tenant 2, which is
\* still open, and a link of reservation 1 has decided reservation 1
TenantIsolationWitness ==
  /\ resp.pc = "done"
  /\ resp.op \in {"confirm", "decline"}
  /\ resp.id = 2
  /\ resp.code = 404
  /\ reservations[2].status = "Pending"
  /\ reservations[1].status \in {"Confirmed", "Declined"}
  /\ \E t \in TokenIds : tokens[t].exists /\ tokens[t].used_at # Null

\* the service date of the body is not the calendar day at any instant at
\* which the request has been served so far
NotToday == \A t \in Instants : dIn.date # getTodayAL(t)

\* the party of the body is within the tenant's ceiling
WithinCeiling ==
  \A rid \in Restaurants :
    getRestaurantRules(rid).maxPeople.finite /\ dIn.people <= getRestaurantRules(rid).maxPeople.v

\* C37. Dates other than today are treated as future: a well-formed create
\* request whose service date is not today, be it before or after today, is
\* never sent to the comparison of its time with now and never rejected as
\* TIME_PASSED, and when its party is within the ceiling the decision is
\* Confirmed with reason future_auto_confirm and the row is stored Confirmed.
OtherDatesAreFuture ==
  (BodyWellFormed /\ NotToday) =>
    /\ req[1].pc # "guard_now"
    /\ ~RejectedWith("TIME_PASSED")
    /\ (req[1].pc = "create_insert" /\ WithinCeiling)
         => /\ req[1].status = "Confirmed"
            /\ req[1].reason = "future_auto_confirm"
    /\ (Created /\ WithinCeiling)
         => /\ req[1].code = 201
            /\ reservations[req[1].id].status = "Confirmed"
            /\ reservations[req[1].id].date = dIn.date

\* a reservation for yesterday has been stored Confirmed
OtherDatesAreFutureWitness ==
  /\ BodyWellFormed
  /\ NotToday
  /\ WithinCeiling
  /\ dIn.date < getTodayAL(clock - ticks)
  /\ Created
  /\ reservations[req[1].id].status = "Confirmed"
  /\ reservations[req[1].id].date = dIn.date

\* C38. Resolved policy is always well-formed: whatever the tenant row, the
\* environment defaults and the outcome of the lookup, getRestaurantRules
\* returns a maxPeople that is a finite positive number and a cutoff that is
\* a zero-padded HH:MM with hour 00-23 and minute 00-59.
WellFormedPolicy ==
  dOut # Null => /\ ~dOut.threw
                 /\ FinitePositive(dOut.maxPeople)
                 /\ IsHHMM(dOut.cutoffHHMI)

\* the reservations the step moves from one status to another
Moved(from, to) ==
  {i \in DOMAIN reservations : reservations[i].status = from /\ reservations'[i].status = to}

\* the rows the WHERE clause selects for the run of process p
Selected(p) ==
  {i \in DOMAIN reservations : SweepSelects(reservations[i], req[p].today, req[p].cutoff)}

\* the sweep of process p after the step: its summary when the step returns it
SweepAfter(p) == IF resp' # NoResp /\ resp'.op = "sweep" THEN resp' ELSE req'[p]

\* C39. Sweep counts are exact: scanned is the number of rows the selection
\* returned, which is the number of rows the WHERE clause selects or 500 when
\* there are more; every update step adds to completed the reservations it
\* moves from Confirmed to Completed and to noshow those it moves from Pending
\* to NoShow, and changes no other reservation; and the two counters together
\* never exceed the rows already processed, so that in the summary
\* completed + noshow <= scanned.
SweepCountsExact ==
  [][\A p \in DOMAIN req :
       /\ (req[p].pc = "sweep_select" /\ req'[p] # req[p])
            => /\ SweepAfter(p).scanned =
                    (IF Cardinality(Selected(p)) > SweepLimit THEN SweepLimit
                     ELSE Cardinality(Selected(p)))
               /\ SweepAfter(p).completed = 0
               /\ SweepAfter(p).noshow = 0
               /\ SweepAfter(p).pc = "sweep_update" => Len(req'[p].rows) = req'[p].scanned
               /\ reservations' = reservations
       /\ (req[p].pc = "sweep_update" /\ req'[p] # req[p])
            => /\ SweepAfter(p).scanned = req[p].scanned
               /\ SweepAfter(p).completed =
                    req[p].completed + Cardinality(Moved("Confirmed", "Completed"))
               /\ SweepAfter(p).noshow = req[p].noshow + Cardinality(Moved("Pending", "NoShow"))
               /\ \A i \in DOMAIN reservations :
                    reservations'[i] # reservations[i]
                      => i \in Moved("Confirmed", "Completed") \cup Moved("Pending", "NoShow")
               /\ SweepAfter(p).completed + SweepAfter(p).noshow + Len(Tail(req[p].rows))
                    <= SweepAfter(p).scanned]_vars

\* after a run that scanned 500 rows, the next run has selected the last two,
\* lost the last one to the owner's decision and returned its summary
SweepCountsExactWitness ==
  /\ resp.pc = "done"
  /\ resp.op = "sweep"
  /\ resp.scanned = 2
  /\ resp.completed + resp.noshow = 1
  /\ reservations[1].closed_reason = "auto_close_cron"
  /\ reservations[BacklogRows].status \in {"Confirmed", "Declined"}
====
